---- MODULE Spec2Model ----
(***************************************************************************)
(* The reminders service of pyicloud (pyicloud/services/reminders.py):     *)
(* record unmarshalling, polymorphic list materialization, zone           *)
(* resolution, the continuation-marker pagination loop and the lazily     *)
(* populated lists and zones caches.                                       *)
(*                                                                         *)
(* Python values are carried as tagged records [t, v]; a Python dict is a  *)
(* TLA+ function from key strings to tagged values.                        *)
(***************************************************************************)
EXTENDS Integers, Sequences, FiniteSets, TLC

VARIABLES
    pc,             \* life of the RemindersService object: "new", "constructing", "ready", "failed"
    caller,         \* the operation in progress or, when no fetch is running, the last one
    fetcher,        \* pagination loop in progress: "none", "lists", "reminders"
    target,         \* argument of the operation: a list id or name, a zone name, or ""
    script,         \* continuation markers the server will answer with, in order
    query,          \* the query dict of the running fetch (local of _fetch_lists/_fetch_reminders)
    records,        \* raw records accumulated by the running fetch
    sent,           \* the queries posted so far by the running (or last) fetch
    received,       \* the response bodies received so far by the running (or last) fetch
    zones_records,  \* ZonesContainer._records
    zone,           \* RemindersService.zone, or NoZone
    lists_records,  \* ListsContainer._records: the list objects, one per name, in insertion order
    zones_requests, \* zones/list requests issued by the running (or last) operation
    zones_response, \* body of the zones/list response that operation received, or None
    populated,      \* which caches have been assigned from a fetch: subset of {"lists","zones"}
    cached_read,    \* the operation is a read of a cache that had been populated before it
    fault,          \* the exception the last operation raised, or NoFault
    ret,            \* the value the last read returned
    rec,            \* ListTypeResolver check: the raw record under resolution
    res,            \* ListTypeResolver check: result of from_record(rec), or Pending
    prev,           \* ListTypeResolver check: result for the record before a key was added
    edit,           \* ListTypeResolver check: which key was added to rec: "none", "share", "grocery"
    unmarshalled,   \* from_record's local `data`: result of unmarshall(rec), or Pending
    exported,       \* result of to_dict() on the list from_record returned, or Pending
    refreshing,     \* a ListsContainer.refresh call has been entered and has not returned
    before,         \* ListsContainer._records at the entry of that refresh
    reader,         \* a second thread reading ListsContainer.records: "idle", "hit", "miss", "done"
    during,         \* the reader tested self._records while the refresh was in progress
    observed,       \* the snapshot the records property returned to the reader
    reader_sent,    \* records/query requests the reader has issued
    word,           \* to_snake_case check: the characters of the input string
    once,           \* to_snake_case(word), or Pending
    twice           \* to_snake_case(to_snake_case(word)), or Pending

vars == <<pc, caller, fetcher, target, script, query, records, sent, received,
          zones_records, zone, lists_records, zones_requests, zones_response,
          populated, cached_read, fault, ret, rec, res, prev, edit,
          unmarshalled, exported, refreshing, before, reader, during, observed, reader_sent,
          word, once, twice>>

serviceVars == <<pc, caller, fetcher, target, script, query, records, sent, received,
                 zones_records, zone, lists_records, zones_requests,
                 zones_response, populated, cached_read, fault, ret>>

resolveVars == <<rec, res, prev, edit, unmarshalled, exported>>

readerVars == <<refreshing, before, reader, during, observed, reader_sent>>

snakeVars == <<word, once, twice>>

----------------------------------------------------------------------------
(* Python values *)

None == [t |-> "none", v |-> "None"]

PyStr(s) == [t |-> "str", v |-> s]

PyInt(n) == [t |-> "int", v |-> n]

PyBool(b) == [t |-> "bool", v |-> b]

PyDict(f) == [t |-> "dict", v |-> f]

Datetime(ms) == [t |-> "datetime", v |-> ms]

Tuple1(x) == [t |-> "tuple", v |-> <<x>>]

Enum(m) == [t |-> "SortingStyleEnum", v |-> m]

EmptyDict == [k \in {} |-> None]

\* dict item assignment d[k] = x
Put(d, k, x) == [j \in DOMAIN d \cup {k} |-> IF j = k THEN x ELSE d[j]]

\* del d[k] / d.pop(k) for a key that is present
Del(d, k) == [j \in DOMAIN d \ {k} |-> d[j]]

\* Python truthiness of a value (bool(x), `not x`, `if x`)
Truthy(x) ==
    CASE x.t = "none" -> FALSE
      [] x.t = "bool" -> x.v
      [] x.t = "int" -> x.v /= 0
      [] x.t = "str" -> x.v /= ""
      [] x.t = "dict" -> DOMAIN x.v /= {}
      [] x.t = "tuple" -> Len(x.v) > 0
      [] OTHER -> TRUE

\* a raised exception
Raise(exc, msg) == [ok |-> FALSE, exc |-> exc, msg |-> msg]

\* a returned value
Return(x) == [ok |-> TRUE, value |-> x]

----------------------------------------------------------------------------
(* to_snake_case: the regular expression substitution, lower() and the     *)
(* "_i_ds" replacement, computed on the characters of the name.            *)

LowerChars == <<"a","b","c","d","e","f","g","h","i","j","k","l","m",
                "n","o","p","q","r","s","t","u","v","w","x","y","z">>

UpperChars == <<"A","B","C","D","E","F","G","H","I","J","K","L","M",
                "N","O","P","Q","R","S","T","U","V","W","X","Y","Z">>

IsLower(c) == \E i \in DOMAIN LowerChars : LowerChars[i] = c

IsUpper(c) == \E i \in DOMAIN UpperChars : UpperChars[i] = c

\* str.lower() on one character
LowerChar(c) ==
    IF IsUpper(c)
    THEN LowerChars[CHOOSE i \in DOMAIN UpperChars : UpperChars[i] = c]
    ELSE c

\* the characters of a key name
Spell(s) ==
    CASE
         s = "recordName" -> <<"r", "e", "c", "o", "r", "d", "N", "a", "m", "e">>
      [] s = "recordType" -> <<"r", "e", "c", "o", "r", "d", "T", "y", "p", "e">>
      [] s = "zoneID" -> <<"z", "o", "n", "e", "I", "D">>
      [] s = "created" -> <<"c", "r", "e", "a", "t", "e", "d">>
      [] s = "modified" -> <<"m", "o", "d", "i", "f", "i", "e", "d">>
      [] s = "deleted" -> <<"d", "e", "l", "e", "t", "e", "d">>
      [] s = "expirationTime" -> <<"e", "x", "p", "i", "r", "a", "t", "i", "o", "n", "T", "i", "m", "e">>
      [] s = "share" -> <<"s", "h", "a", "r", "e">>
      [] s = "stableUrl" -> <<"s", "t", "a", "b", "l", "e", "U", "r", "l">>
      [] s = "shortGUID" -> <<"s", "h", "o", "r", "t", "G", "U", "I", "D">>
      [] s = "fields" -> <<"f", "i", "e", "l", "d", "s">>
      [] s = "recordChangeTag" -> <<"r", "e", "c", "o", "r", "d", "C", "h", "a", "n", "g", "e", "T", "a", "g">>
      [] s = "pluginFields" -> <<"p", "l", "u", "g", "i", "n", "F", "i", "e", "l", "d", "s">>
      [] s = "Name" -> <<"N", "a", "m", "e">>
      [] s = "Share" -> <<"S", "h", "a", "r", "e">>
      [] s = "ShouldCategorizeGroceryItems" -> <<"S", "h", "o", "u", "l", "d", "C", "a", "t", "e", "g", "o", "r", "i", "z", "e", "G", "r", "o", "c", "e", "r", "y", "I", "t", "e", "m", "s">>
      [] s = "SortingStyle" -> <<"S", "o", "r", "t", "i", "n", "g", "S", "t", "y", "l", "e">>
      [] s = "ReminderIDs" -> <<"R", "e", "m", "i", "n", "d", "e", "r", "I", "D", "s">>
      [] s = "IsGroup" -> <<"I", "s", "G", "r", "o", "u", "p">>
      [] s = "Count" -> <<"C", "o", "u", "n", "t">>
      [] s = "Color" -> <<"C", "o", "l", "o", "r">>
      [] s = "ZoneID" -> <<"Z", "o", "n", "e", "I", "D">>
      [] s = "RecordType" -> <<"R", "e", "c", "o", "r", "d", "T", "y", "p", "e">>
      [] s = "ListID" -> <<"L", "i", "s", "t", "I", "D">>
      [] s = "ImportedDate" -> <<"I", "m", "p", "o", "r", "t", "e", "d", "D", "a", "t", "e">>
      [] s = "RecordID" -> <<"R", "e", "c", "o", "r", "d", "I", "D">>
      [] s = "Fields" -> <<"F", "i", "e", "l", "d", "s">>
      [] s = "RecordChangeTag" -> <<"R", "e", "c", "o", "r", "d", "C", "h", "a", "n", "g", "e", "T", "a", "g">>
      [] s = "sorting_style" -> <<"s", "o", "r", "t", "i", "n", "g", "_", "s", "t", "y", "l", "e">>
      [] s = "SortingStyleIDs" -> <<"S", "o", "r", "t", "i", "n", "g", "S", "t", "y", "l", "e", "I", "D", "s">>
      [] s = "sorting_style_ids" -> <<"s", "o", "r", "t", "i", "n", "g", "_", "s", "t", "y", "l", "e", "_", "i", "d", "s">>
      [] s = "zone_id" -> <<"z", "o", "n", "e", "_", "i", "d">>
      [] s = "short_guid" -> <<"s", "h", "o", "r", "t", "_", "g", "u", "i", "d">>

\* the string made of the characters cs
RECURSIVE Join(_)
Join(cs) == IF cs = <<>> THEN "" ELSE Head(cs) \o Join(Tail(cs))

\* a pattern with the first alternative only, the lower-to-upper boundary
snake_case_pattern_camel(cs, i) ==
    IsLower(cs[i]) /\ IsUpper(cs[i + 1])

\* snake_case_pattern matches the empty string between cs[i] and cs[i+1]
snake_case_pattern(cs, i) ==
    \/ IsLower(cs[i]) /\ IsUpper(cs[i + 1])
    \/ /\ IsUpper(cs[i]) /\ IsUpper(cs[i + 1])
       /\ i + 2 <= Len(cs) /\ IsLower(cs[i + 2])

\* snake_case_pattern.sub("_", data), from position i on
RECURSIVE snake_case_sub(_, _)
snake_case_sub(cs, i) ==
    IF i > Len(cs) THEN <<>>
    ELSE IF i < Len(cs) /\ snake_case_pattern(cs, i)
         THEN <<cs[i], "_">> \o snake_case_sub(cs, i + 1)
         ELSE <<cs[i]>> \o snake_case_sub(cs, i + 1)

lower(cs) == [i \in DOMAIN cs |-> LowerChar(cs[i])]

RECURSIVE replace_i_ds_unprefixed(_)
RECURSIVE replace_i_ds(_)
\* a replacement that also drops the underscore in front: "_i_ds" becomes "i_ds"
replace_i_ds_unprefixed(cs) ==
    IF cs = <<>> THEN <<>>
    ELSE IF Len(cs) >= 5 /\ SubSeq(cs, 1, 5) = <<"_", "i", "_", "d", "s">>
         THEN <<"i", "_", "d", "s">> \o replace_i_ds_unprefixed(SubSeq(cs, 6, Len(cs)))
         ELSE <<Head(cs)>> \o replace_i_ds_unprefixed(Tail(cs))

\* str.replace("_i_ds", "_ids"): leftmost non-overlapping occurrences
replace_i_ds(cs) ==
    IF cs = <<>> THEN <<>>
    ELSE IF Len(cs) >= 5 /\ SubSeq(cs, 1, 5) = <<"_", "i", "_", "d", "s">>
         THEN <<"_", "i", "d", "s">> \o replace_i_ds(SubSeq(cs, 6, Len(cs)))
         ELSE <<Head(cs)>> \o replace_i_ds(Tail(cs))

to_snake_case_chars(cs) == replace_i_ds(lower(snake_case_sub(cs, 1)))

\* the key names that occur in the records of this model
KeyNames ==
    {"recordName", "recordType", "zoneID", "created", "modified", "deleted",
     "expirationTime", "share", "stableUrl", "shortGUID", "fields",
     "recordChangeTag", "pluginFields", "Name", "Share",
     "ShouldCategorizeGroceryItems", "SortingStyle", "ReminderIDs", "IsGroup",
     "Count", "Color", "ZoneID", "RecordType", "ListID", "sorting_style",
     "ImportedDate", "RecordID", "Fields", "RecordChangeTag"}

\* to_snake_case of every key name, computed once
SnakeCased == [s \in KeyNames |-> Join(to_snake_case_chars(Spell(s)))]

to_snake_case(s) == SnakeCased[s]

----------------------------------------------------------------------------
(* unmarshall: the record unmarshalling engine.  Timestamps are counted in *)
(* megaseconds since the epoch (the wire value divided by 10^9 for         *)
(* milliseconds, by 10^6 for seconds), so that they fit the checker's      *)
(* integers; datetime accepts the years 1..9999.                           *)

MinTimestamp == -62135

MaxTimestamp == 253402

PyList(xs) == [t |-> "list", v |-> xs]

\* dict.get(k, None)
Get(d, k) == IF k \in DOMAIN d THEN d[k] ELSE None

\* the keys of dict d in the order the sequence `order` presents them
KeysInOrder(d, order) == SelectSeq(order, LAMBDA k : k \in DOMAIN d)

\* datetime.fromtimestamp(ts / 1000.0, timezone.utc), ValueError caught
timestamp_milliseconds_to_datetime(ts) ==
    IF ts.t \notin {"int", "bool"}
    THEN Raise("TypeError", "unsupported operand type(s) for /")
    ELSE LET n == IF ts.t = "bool" THEN 0 ELSE ts.v
         IN IF n >= MinTimestamp /\ n <= MaxTimestamp
            THEN Return(Datetime(n))
            ELSE Return(None)

\* datetime.fromtimestamp(ts, timezone.utc), ValueError caught
timestamp_seconds_to_datetime(ts) ==
    IF ts.t \notin {"int", "bool"}
    THEN Raise("TypeError", "an integer is required")
    ELSE LET n == IF ts.t = "bool" THEN 0 ELSE ts.v
         IN IF n >= MinTimestamp /\ n <= MaxTimestamp
            THEN Return(Datetime(n))
            ELSE Return(None)

\* variant of unmarshall_activity that takes the boolean True as "never occurred"
unmarshall_activity_lenient(data) ==
    LET result == [timestamp |-> None, user_id |-> None, device_id |-> None]
    IN IF data.t \notin {"bool", "dict"}
       THEN Raise("ValueError", "Invalid activity data (expected a dict or boolean False)")
       ELSE IF data.t = "bool" \/ ~Truthy(data)
       THEN Return(result)
       ELSE IF "timestamp" \notin DOMAIN data.v
       THEN Raise("ValueError", "Invalid activity data (missing 'timestamp')")
       ELSE LET ts == timestamp_milliseconds_to_datetime(data.v["timestamp"])
            IN IF ~ts.ok THEN ts
               ELSE IF ts.value = None
               THEN Raise("ValueError", "Invalid timestamp")
               ELSE Return([timestamp |-> ts.value,
                            user_id |-> Get(data.v, "userRecordName"),
                            device_id |-> Get(data.v, "deviceID")])

\* unmarshall_activity (lines 57-90)
unmarshall_activity(data) ==
    LET result == [timestamp |-> None, user_id |-> None, device_id |-> None]
    IN IF data.t = "bool" /\ data.v
       THEN Raise("AssertionError", "Activity data should be a dict or boolean False")
       ELSE IF data.t \notin {"bool", "dict"}
       THEN Raise("ValueError", "Invalid activity data (expected a dict or boolean False)")
       ELSE IF ~Truthy(data)
       THEN Return(result)
       ELSE IF "timestamp" \notin DOMAIN data.v
       THEN Raise("ValueError", "Invalid activity data (missing 'timestamp')")
       ELSE LET ts == timestamp_milliseconds_to_datetime(data.v["timestamp"])
            IN IF ~ts.ok THEN ts
               ELSE IF ts.value = None
               THEN Raise("ValueError", "Invalid timestamp")
               ELSE Return([timestamp |-> ts.value,
                            user_id |-> Get(data.v, "userRecordName"),
                            device_id |-> Get(data.v, "deviceID")])

\* SortingStyleEnum.from_string
from_string(value) ==
    IF value = PyStr("manual") THEN Return(Enum("MANUAL"))
    ELSE IF value = PyStr("displayDate_asc") THEN Return(Enum("DISPLAY_DATE_ASCENDING"))
    ELSE IF value = PyStr("displayDate_desc") THEN Return(Enum("DISPLAY_DATE_DESCENDING"))
    ELSE IF value = PyStr("title_asc") THEN Return(Enum("TITLE_ASCENDING"))
    ELSE IF value = PyStr("title_desc") THEN Return(Enum("TITLE_DESCENDING"))
    ELSE Raise("ValueError", "Unknown sorting style")

\* int(x)
int(x) ==
    IF x.t = "int" THEN Return(x)
    ELSE IF x.t = "bool" THEN Return(PyInt(IF x.v THEN 1 ELSE 0))
    ELSE IF x.t = "str"
    THEN IF x.v = "0" THEN Return(PyInt(0))
         ELSE IF x.v = "1" THEN Return(PyInt(1))
         ELSE IF x.v = "2" THEN Return(PyInt(2))
         ELSE Raise("ValueError", "invalid literal for int()")
    ELSE Raise("TypeError", "int() argument must be a string or a number")

\* json.loads(x): the JSON texts of the model's records
json_loads(x) ==
    IF x.t /= "str" THEN Raise("TypeError", "the JSON object must be str")
    ELSE IF x.v = "[]" THEN Return(PyList(<<>>))
    ELSE IF x.v = "[\"r1\"]" THEN Return(PyList(<<PyStr("r1")>>))
    ELSE IF x.v = "{}" THEN Return(PyDict(EmptyDict))
    ELSE Raise("JSONDecodeError", "Expecting value")

\* x == 1
EqualsOne(x) == (x.t = "int" /\ x.v = 1) \/ (x.t = "bool" /\ x.v)

JsonFields == {"color", "reminder_ids", "resolution_token_map"}

BooleanFields == {"deleted", "imported", "is_group", "is_linked_to_account",
                  "should_categorize_grocery_items"}

\* the type dispatch of one field (reminders.py lines 108-127)
CoerceField(field_value) ==
    IF "type" \notin DOMAIN field_value.v THEN Raise("KeyError", "type")
    ELSE LET type == field_value.v["type"]
         IN IF type \in {PyStr("STRING"), PyStr("INT64"), PyStr("BOOLEAN"),
                         PyStr("TIMESTAMP"), PyStr("ASSETID")}
               /\ "value" \notin DOMAIN field_value.v
            THEN Raise("KeyError", "value")
            ELSE IF type = PyStr("STRING") THEN Return(field_value.v["value"])
            ELSE IF type = PyStr("INT64") THEN int(field_value.v["value"])
            ELSE IF type = PyStr("BOOLEAN")
            THEN Return(PyBool(Truthy(field_value.v["value"])))
            ELSE IF type = PyStr("TIMESTAMP")
            THEN timestamp_milliseconds_to_datetime(field_value.v["value"])
            ELSE IF type = PyStr("ASSETID") THEN Return(field_value.v["value"])
            ELSE Return(field_value)

\* the field-specific post-processing of one field (lines 129-154)
PostProcessField(raw_fields, field_name, field_value, coerced) ==
    IF field_name \in JsonFields
    THEN IF "value" \notin DOMAIN field_value.v THEN Raise("KeyError", "value")
         ELSE LET parsed == json_loads(field_value.v["value"])
              IN IF parsed.ok THEN parsed
                 ELSE IF parsed.exc = "JSONDecodeError" THEN Return(PyDict(EmptyDict))
                 ELSE parsed
    ELSE IF field_name \in BooleanFields
    THEN Return(PyBool(EqualsOne(coerced)))
    ELSE IF field_name = "sorting_style"
    THEN LET style == from_string(IF field_name \in DOMAIN raw_fields
                                  THEN raw_fields[field_name]
                                  ELSE PyStr("manual"))
         IN IF style.ok THEN Return(Tuple1(style.value)) ELSE style
    ELSE Return(coerced)

\* order in which a record presents its fields
FieldOrder == <<"Name", "Share", "ShouldCategorizeGroceryItems", "SortingStyle",
                "sorting_style", "ReminderIDs", "IsGroup", "Count", "Color",
                "ImportedDate", "ZoneID", "RecordType", "RecordID", "ListID",
                "Fields", "RecordChangeTag">>

\* the loop over data["fields"] (lines 106-154): acc is the fields dict so far,
\* or the exception raised
RECURSIVE UnmarshallFields(_, _, _)
UnmarshallFields(raw_fields, names, acc) ==
    IF names = <<>> \/ ~acc.ok THEN acc
    ELSE LET field_name == to_snake_case(Head(names))
             field_value == raw_fields[Head(names)]
             coerced == CoerceField(field_value)
             final == IF coerced.ok
                      THEN PostProcessField(raw_fields, field_name, field_value,
                                            coerced.value)
                      ELSE coerced
         IN UnmarshallFields(raw_fields, Tail(names),
                IF final.ok
                THEN Return(Put(acc.value, field_name, final.value))
                ELSE final)

\* the "fields" branch (lines 103-162), with the default of the name
UnmarshallFieldsKey(data_value) ==
    IF data_value.t /= "dict" THEN Raise("AttributeError", "items")
    ELSE LET fields == UnmarshallFields(data_value.v,
                           KeysInOrder(data_value.v, FieldOrder), Return(EmptyDict))
         IN IF ~fields.ok THEN fields
            ELSE IF "name" \notin DOMAIN fields.value \/ ~Truthy(fields.value["name"])
            THEN Return(PyDict(Put(fields.value, "name", PyStr("Unknown"))))
            ELSE Return(PyDict(fields.value))

\* order in which a record presents its top-level keys
TopKeyOrder == <<"recordName", "recordType", "fields", "pluginFields",
                 "recordChangeTag", "created", "modified", "deleted",
                 "expirationTime", "share", "stableUrl", "shortGUID", "zoneID">>

\* one iteration of the loop over data.items() (lines 93-180)
UnmarshallKey(result, data_key, data_value) ==
    IF data_key = "recordName"
    THEN Return(Put(result, "record_id", data_value))
    ELSE IF data_key \in {"created", "deleted", "modified"}
    THEN LET parsed == unmarshall_activity(data_value)
             prefix == to_snake_case(data_key)
         IN IF ~parsed.ok THEN parsed
            ELSE Return(Put(Put(Put(result,
                     prefix \o "_date", parsed.value.timestamp),
                     prefix \o "_by_user", parsed.value.user_id),
                     prefix \o "_by_device", parsed.value.device_id))
    ELSE IF data_key = "expirationTime"
    THEN LET dt == timestamp_seconds_to_datetime(data_value)
         IN IF dt.ok THEN Return(Put(result, "expiration_date", dt.value)) ELSE dt
    ELSE IF data_key = "fields"
    THEN LET fields == UnmarshallFieldsKey(data_value)
         IN IF fields.ok THEN Return(Put(result, "fields", fields.value)) ELSE fields
    ELSE Return(Put(result, to_snake_case(data_key), data_value))

RECURSIVE UnmarshallKeys(_, _, _)
UnmarshallKeys(data, keys, acc) ==
    IF keys = <<>> \/ ~acc.ok THEN acc
    ELSE UnmarshallKeys(data, Tail(keys),
                        UnmarshallKey(acc.value, Head(keys), data[Head(keys)]))

unmarshall(data) == UnmarshallKeys(data, KeysInOrder(data, TopKeyOrder), Return(EmptyDict))

----------------------------------------------------------------------------
(* The list variants and BaseRemindersList.from_record.  A constructor     *)
(* takes the flattened attribute mapping as keyword arguments; a missing   *)
(* required argument or an unexpected keyword is a TypeError.              *)

BaseRequired == {"list_id", "created_date", "created_by_user", "created_by_device",
                 "modified_date", "modified_by_user", "modified_by_device"}

BaseOptional == {"deleted_date", "deleted_by_user", "deleted_by_device",
                 "badge_emblem", "chain_private_key", "chain_protection_info",
                 "color", "count", "deleted", "displayed_hostname",
                 "expiration_date", "grocery_local_corrections_as_data",
                 "grocery_local_corrections_checksum", "grocery_locale_id",
                 "imported", "imported_date", "is_group", "is_linked_to_account",
                 "list_name", "memberships_of_reminders_in_sections_as_data",
                 "memberships_of_reminders_in_sections_checksum", "parent_list",
                 "pinned_date", "plugin_fields", "record_change_tag",
                 "reminder_ids_asset", "reminder_ids", "resolution_token_map",
                 "section_ids_ordering_as_data", "share", "short_guid",
                 "should_categorize_grocery_items", "sorting_style", "stable_url"}

\* the attributes BaseRemindersList.__init__ stores, by the argument each comes from
BaseAttributes == [list_id |-> "list_id", name |-> "list_name", count |-> "count",
                   deleted |-> "deleted", imported |-> "imported",
                   is_group |-> "is_group",
                   is_linked_to_account |-> "is_linked_to_account",
                   record_change_tag |-> "record_change_tag",
                   reminder_ids |-> "reminder_ids",
                   resolution_token_map |-> "resolution_token_map",
                   sorting_style |-> "sorting_style", parent_list |-> "parent_list",
                   plugin_fields |-> "plugin_fields", created_date |-> "created_date",
                   created_by_user |-> "created_by_user",
                   created_by_device |-> "created_by_device",
                   modified_date |-> "modified_date",
                   modified_by_user |-> "modified_by_user",
                   modified_by_device |-> "modified_by_device",
                   deleted_date |-> "deleted_date",
                   deleted_by_user |-> "deleted_by_user",
                   deleted_by_device |-> "deleted_by_device"]

\* BaseRemindersList.__init__(service=service, **kwargs): the attributes of self
BaseRemindersList_init(kwargs) ==
    IF ~(BaseRequired \subseteq DOMAIN kwargs)
    THEN Raise("TypeError", "missing required positional arguments")
    ELSE IF ~(DOMAIN kwargs \subseteq BaseRequired \cup BaseOptional)
    THEN Raise("TypeError", "got an unexpected keyword argument")
    ELSE Return([a \in DOMAIN BaseAttributes \cup {"_reminders"} |->
                    IF a = "_reminders" THEN None
                    ELSE Get(kwargs, BaseAttributes[a])])

\* kwargs with the keyword arguments ks bound to named parameters
Without(kwargs, ks) == [k \in DOMAIN kwargs \ ks |-> kwargs[k]]

StandardRemindersList_init(kwargs) ==
    LET base == BaseRemindersList_init(Without(kwargs, {"expiration_date", "parent_list"}))
    IN IF ~base.ok THEN base
       ELSE Return(Put(Put(base.value,
                "expiration_date", Get(kwargs, "expiration_date")),
                "parent_list", Get(kwargs, "parent_list")))

\* self.<name> = value only when value is truthy
PutIfTruthy(attrs, name, value) == IF Truthy(value) THEN Put(attrs, name, value) ELSE attrs

\* variant of SharedRemindersList.__init__ whose stable_url and short_guid default to None
SharedRemindersList_init_defaults(kwargs) ==
    IF "share" \notin DOMAIN kwargs
    THEN Raise("TypeError", "missing required positional arguments")
    ELSE LET std == StandardRemindersList_init(Without(kwargs,
                        {"share", "stable_url", "short_guid",
                         "should_auto_categorize_items"}))
         IN IF ~std.ok THEN std
            ELSE Return(PutIfTruthy(
                     Put(Put(Put(std.value, "share", kwargs["share"]),
                         "stable_url", Get(kwargs, "stable_url")),
                         "short_guid", Get(kwargs, "short_guid")),
                     "should_auto_categorize_items",
                     Get(kwargs, "should_auto_categorize_items")))

SharedRemindersList_init(kwargs) ==
    IF ~({"share", "stable_url", "short_guid"} \subseteq DOMAIN kwargs)
    THEN Raise("TypeError", "missing required positional arguments")
    ELSE LET should_auto_categorize_items == Get(kwargs, "should_auto_categorize_items")
             std == StandardRemindersList_init(Without(kwargs,
                        {"share", "stable_url", "short_guid",
                         "should_auto_categorize_items"}))
         IN IF ~std.ok THEN std
            ELSE Return(PutIfTruthy(
                     Put(Put(Put(std.value, "share", kwargs["share"]),
                         "stable_url", kwargs["stable_url"]),
                         "short_guid", kwargs["short_guid"]),
                     "should_auto_categorize_items", should_auto_categorize_items))

EnhancedRemindersList_init(kwargs) ==
    LET should_auto_categorize_items == Get(kwargs, "should_auto_categorize_items")
        should_categorize_grocery_items ==
            IF "should_categorize_grocery_items" \in DOMAIN kwargs
            THEN kwargs["should_categorize_grocery_items"]
            ELSE PyBool(TRUE)
        std == StandardRemindersList_init(Without(kwargs,
                   {"should_auto_categorize_items", "should_categorize_grocery_items"}))
    IN IF ~std.ok THEN std
       ELSE Return(PutIfTruthy(
                PutIfTruthy(std.value,
                    "should_auto_categorize_items", should_auto_categorize_items),
                "should_categorize_grocery_items", should_categorize_grocery_items))

\* cls.from_data(service, data): an object of class cls, or the constructor's fault
from_data(cls, init) ==
    IF init.ok THEN Return([cls |-> cls, attrs |-> init.value]) ELSE init

\* variant of the dispatch that tests should_categorize_grocery_items before share
Dispatch_grocery_first(data) ==
    IF "should_categorize_grocery_items" \in DOMAIN data
    THEN from_data("EnhancedRemindersList", EnhancedRemindersList_init(data))
    ELSE IF "share" \in DOMAIN data
    THEN from_data("SharedRemindersList", SharedRemindersList_init(data))
    ELSE from_data("StandardRemindersList", StandardRemindersList_init(data))

\* the discriminator dispatch of from_record (lines 388-393)
Dispatch(data) ==
    IF "share" \in DOMAIN data
    THEN from_data("SharedRemindersList", SharedRemindersList_init(data))
    ELSE IF "should_categorize_grocery_items" \in DOMAIN data
    THEN from_data("EnhancedRemindersList", EnhancedRemindersList_init(data))
    ELSE from_data("StandardRemindersList", StandardRemindersList_init(data))

\* lines 370-380: promote record_id and name, merge the fields into the
\* top-level attributes, drop record_type, fields and zone_id
Flatten(data) ==
    IF "record_id" \notin DOMAIN data THEN Raise("KeyError", "record_id")
    ELSE IF "fields" \notin DOMAIN data THEN Raise("KeyError", "fields")
    ELSE LET fields == Del(data["fields"].v, "name")
             d1 == Del(Del(Put(Put(data, "list_id", data["record_id"]),
                               "list_name", data["fields"].v["name"]),
                           "record_id"), "record_type")
             d2 == [k \in DOMAIN d1 \cup DOMAIN fields |->
                       IF k \in DOMAIN fields THEN fields[k] ELSE d1[k]]
         IN IF \E field_name \in DOMAIN fields :
                   field_name \in DOMAIN d1 /\ field_name /= "name"
            THEN Raise("KeyError", "already exists")
            ELSE IF "zone_id" \notin DOMAIN d2 THEN Raise("KeyError", "zone_id")
            ELSE Return(Del(Del(d2, "fields"), "zone_id"))

\* BaseRemindersList.from_record(service, record)
from_record(record) ==
    IF "recordType" \notin DOMAIN record THEN Raise("KeyError", "recordType")
    ELSE IF record["recordType"] /= PyStr("List")
    THEN Raise("PyiCloudAPIResponseException", "Record is not a List")
    ELSE LET data == unmarshall(record)
         IN IF ~data.ok THEN data
            ELSE IF DOMAIN data.value = {}
            THEN Raise("PyiCloudAPIResponseException", "Failed to unmarshall record")
            ELSE LET flat == Flatten(data.value)
                 IN IF flat.ok THEN Dispatch(flat.value) ELSE flat

----------------------------------------------------------------------------
(* Raw records the server can deliver.                                     *)

\* a wire field {"type": type, "value": value}
WireField(type, value) == PyDict(("type" :> PyStr(type)) @@ ("value" :> value))

ShareValue == PyDict("x" :> PyInt(1))

ActivityValue == PyDict("timestamp" :> PyInt(1700))

\* the function f restricted to the keys in ks
Restrict(f, ks) == [k \in ks |-> f[k]]

\* every optional top-level key with the value it has when present
OptionalTop == ("zoneID" :> PyDict("zoneName" :> PyStr("Reminders")))
            @@ ("created" :> ActivityValue)
            @@ ("share" :> ShareValue)
            @@ ("stableUrl" :> PyStr("https://www.icloud.com/reminders/g1"))
            @@ ("shortGUID" :> PyStr("g1"))

\* every optional field; ShouldCategorizeGroceryItems takes both of its values
OptionalFields(grocery) ==
       ("Name" :> WireField("STRING", PyStr("A")))
    @@ ("Share" :> WireField("STRING", PyStr("s")))
    @@ ("ShouldCategorizeGroceryItems" :> WireField("INT64", PyInt(grocery)))

RawRecord(recordType, recordName, top, fields) ==
       ("recordName" :> PyStr(recordName))
    @@ ("recordType" :> PyStr(recordType))
    @@ ("modified" :> ActivityValue)
    @@ ("deleted" :> PyBool(FALSE))
    @@ ("fields" :> PyDict(fields))
    @@ top

AllRecords ==
    { RawRecord(recordType, "L1", Restrict(OptionalTop, top),
                Restrict(OptionalFields(grocery), fields)) :
        recordType \in {"List", "Reminder"},
        top \in SUBSET DOMAIN OptionalTop,
        fields \in SUBSET DOMAIN OptionalFields(0),
        grocery \in {0, 1} }

----------------------------------------------------------------------------
(* Initial values of the two groups of variables.                          *)

NoFault == [ok |-> TRUE, value |-> None]

NoZone == [cls |-> "NoneType", attrs |-> EmptyDict]

Pending == [ok |-> FALSE, exc |-> "(pending)", msg |-> ""]

ServiceInit ==
    /\ pc = "new"
    /\ caller = "none"
    /\ fetcher = "none"
    /\ target = ""
    /\ script = <<>>
    /\ query = EmptyDict
    /\ records = <<>>
    /\ sent = <<>>
    /\ received = <<>>
    /\ zones_records = <<>>
    /\ zone = NoZone
    /\ lists_records = EmptyDict
    /\ zones_requests = 0
    /\ zones_response = None
    /\ populated = {}
    /\ cached_read = FALSE
    /\ fault = NoFault
    /\ ret = None

ResolveIdle ==
    /\ rec = EmptyDict
    /\ res = Pending
    /\ prev = Pending
    /\ edit = "none"
    /\ unmarshalled = Pending
    /\ exported = Pending

ReaderIdle ==
    /\ refreshing = FALSE
    /\ before = <<>>
    /\ reader = "idle"
    /\ during = FALSE
    /\ observed = <<>>
    /\ reader_sent = 0

SnakeIdle ==
    /\ word = <<>>
    /\ once = Pending
    /\ twice = Pending

----------------------------------------------------------------------------
(* ListTypeResolver: from_record applied to any record of AllRecords, and  *)
(* to the same record after one discriminator has been added to it.        *)

InitResolve ==
    /\ ServiceInit
    /\ ReaderIdle
    /\ SnakeIdle
    /\ rec \in AllRecords
    /\ res = Pending
    /\ prev = Pending
    /\ edit = "none"
    /\ unmarshalled = Pending
    /\ exported = Pending

Resolve ==
    /\ res = Pending
    /\ res' = from_record(rec)
    /\ unmarshalled' = IF Get(rec, "recordType") = PyStr("List") THEN unmarshall(rec) ELSE Pending
    /\ UNCHANGED <<rec, prev, edit, exported>>
    /\ UNCHANGED <<serviceVars, readerVars, snakeVars>>

\* the record with share={"x": 1} added
AddShare ==
    /\ res /= Pending
    /\ edit = "none"
    /\ "share" \notin DOMAIN rec
    /\ rec' = Put(rec, "share", ShareValue)
    /\ prev' = res
    /\ res' = Pending
    /\ edit' = "share"
    /\ unmarshalled' = Pending
    /\ exported' = Pending
    /\ UNCHANGED <<serviceVars, readerVars, snakeVars>>

\* the record with the field ShouldCategorizeGroceryItems added
AddGrocery ==
    /\ res /= Pending
    /\ edit = "none"
    /\ "ShouldCategorizeGroceryItems" \notin DOMAIN rec["fields"].v
    /\ \E grocery \in {0, 1} :
          rec' = Put(rec, "fields",
                     PyDict(Put(rec["fields"].v, "ShouldCategorizeGroceryItems",
                                WireField("INT64", PyInt(grocery)))))
    /\ prev' = res
    /\ res' = Pending
    /\ edit' = "grocery"
    /\ unmarshalled' = Pending
    /\ exported' = Pending
    /\ UNCHANGED <<serviceVars, readerVars, snakeVars>>

NextResolve == Resolve \/ AddShare \/ AddGrocery

SpecResolve == InitResolve /\ [][NextResolve]_vars

----------------------------------------------------------------------------
(* Properties of the ListTypeResolver.                                     *)

\* canonical names of the fields of record r
FieldNames(r) == { to_snake_case(f) : f \in DOMAIN r["fields"].v }

\* canonical names of the top-level keys of record r
TopNames(r) == { to_snake_case(k) : k \in DOMAIN r }

Resolved == res.ok

Variant == res.value.cls

\* C6 as stated: whenever from_record returns a list, it is Shared iff the
\* record has a top-level share, Enhanced iff share is absent and the field
\* should_categorize_grocery_items is present, Standard otherwise.
C6_AsStated ==
    Resolved =>
        /\ Variant = "SharedRemindersList" <=> "share" \in DOMAIN rec
        /\ Variant = "EnhancedRemindersList" <=>
              /\ "share" \notin DOMAIN rec
              /\ "should_categorize_grocery_items" \in FieldNames(rec)
        /\ Variant = "StandardRemindersList" <=>
              /\ "share" \notin DOMAIN rec
              /\ "should_categorize_grocery_items" \notin FieldNames(rec)

\* C6 amended: whenever from_record returns a list, its variant follows the
\* precedence share > should_categorize_grocery_items > neither, where presence
\* is judged on top-level keys and fields alike: Shared iff the record has a
\* top-level share or a field named share; Enhanced iff it has neither and
\* should_categorize_grocery_items is present, whatever its value; Standard
\* otherwise.  A record with both discriminators yields Shared.
C6_VariantPrecedence ==
    Resolved =>
        LET names == TopNames(rec) \cup FieldNames(rec)
        IN /\ Variant = "SharedRemindersList" <=> "share" \in names
           /\ Variant = "EnhancedRemindersList" <=>
                 /\ "share" \notin names
                 /\ "should_categorize_grocery_items" \in names
           /\ Variant = "StandardRemindersList" <=>
                 /\ "share" \notin names
                 /\ "should_categorize_grocery_items" \notin names

\* a record with both discriminators has been resolved to the Shared variant
C6_Witness ==
    /\ Resolved
    /\ edit = "none"
    /\ "share" \in DOMAIN rec
    /\ "should_categorize_grocery_items" \in FieldNames(rec)
    /\ Variant = "SharedRemindersList"

\* the record resolved to Standard before a discriminator was added to it
WasStandard == prev.ok /\ prev.value.cls = "StandardRemindersList"

\* C7 as stated: a record that resolves to Standard resolves to Shared once
\* only share is added, and to Enhanced once only
\* should_categorize_grocery_items is added.
C7_AsStated ==
    (WasStandard /\ res /= Pending) =>
        /\ edit = "share" => Resolved /\ Variant = "SharedRemindersList"
        /\ edit = "grocery" => Resolved /\ Variant = "EnhancedRemindersList"

\* C7 amended: a record that resolves to Standard resolves to Enhanced once
\* only should_categorize_grocery_items is added; once only share is added it
\* resolves to Shared if it also carries stable_url and short_guid, and
\* otherwise the Shared constructor fails with a TypeError.
C7_AddedDiscriminator ==
    (WasStandard /\ res /= Pending) =>
        /\ edit = "grocery" => Resolved /\ Variant = "EnhancedRemindersList"
        /\ edit = "share" =>
              IF {"stable_url", "short_guid"} \subseteq TopNames(rec) \cup FieldNames(rec)
              THEN Resolved /\ Variant = "SharedRemindersList"
              ELSE ~res.ok /\ res.exc = "TypeError"

\* share was added to a Standard record and it resolved to the Shared variant
C7_Witness ==
    /\ WasStandard
    /\ edit = "share"
    /\ Resolved
    /\ Variant = "SharedRemindersList"

----------------------------------------------------------------------------
(* ZoneResolver: ZoneObject.from_record, ZoneIDObject.from_record and the  *)
(* ZonesContainer.                                                         *)

SchemaFault(msg) == Raise("PyiCloudAPIResponseException", msg)

\* ZoneIDObject.from_record(record) followed by ZoneIDObject.__init__
ZoneIDObject_from_record(record) ==
    IF record.t /= "dict" THEN SchemaFault("Record is not a dict")
    ELSE IF "zoneName" \notin DOMAIN record.v
    THEN SchemaFault("Record should contain 'zoneName'")
    ELSE IF "zoneType" \notin DOMAIN record.v
    THEN SchemaFault("Record should contain 'zoneType'")
    ELSE IF "ownerRecordName" \notin DOMAIN record.v
    THEN SchemaFault("Record should contain 'ownerRecordName'")
    ELSE Return([zone_name |-> record.v["zoneName"],
                 zone_type |-> record.v["zoneType"],
                 owner_record_name |-> record.v["ownerRecordName"]])

\* ZoneIDObject.to_dict
ZoneIDObject_to_dict(zone_id) ==
    PyDict(("zoneName" :> zone_id.zone_name) @@ ("zoneType" :> zone_id.zone_type)
           @@ ("ownerRecordName" :> zone_id.owner_record_name))

\* ZoneObject.__init__
ZoneObject_init(zone_id, atomic, is_eligible_for_hierarchical_share,
                is_eligible_for_zone_share, sync_token) ==
    LET id == ZoneIDObject_from_record(zone_id)
    IN IF ~id.ok THEN id
       ELSE Return([cls |-> "ZoneObject",
                    attrs |-> [zone_id |-> id.value,
                               atomic |-> atomic,
                               is_eligible_for_hierarchical_share |->
                                   is_eligible_for_hierarchical_share,
                               is_eligible_for_zone_share |-> is_eligible_for_zone_share,
                               sync_token |-> sync_token]])

\* ZoneObject.from_record(service, record)
ZoneObject_from_record(record) ==
    IF ~Truthy(record) \/ record.t /= "dict"
    THEN SchemaFault("Record is empty")
    ELSE IF "atomic" \notin DOMAIN record.v
    THEN SchemaFault("Zone record should contain field 'atomic'")
    ELSE IF "isEligibleForHierarchicalShare" \notin DOMAIN record.v
    THEN SchemaFault("Zone record should contain field 'isisEligibleForHierarchicalShare'")
    ELSE IF "isEligibleForZoneShare" \notin DOMAIN record.v
    THEN SchemaFault("Zone record should contain field 'isEligibleForZoneShare'")
    ELSE IF "zoneID" \notin DOMAIN record.v
    THEN SchemaFault("Zone record should contain field 'zoneID'")
    ELSE IF record.v["zoneID"].t /= "dict"
    THEN SchemaFault("Zone record's 'zoneID' field should be a dict")
    ELSE IF "zoneName" \notin DOMAIN record.v["zoneID"].v
    THEN SchemaFault("Zone record's 'zoneID' field should contain 'zoneName'")
    ELSE IF "zoneType" \notin DOMAIN record.v["zoneID"].v
    THEN SchemaFault("Zone record's 'zoneID' field should contain 'zoneType'")
    ELSE IF "ownerRecordName" \notin DOMAIN record.v["zoneID"].v
    THEN SchemaFault("Zone record's 'zoneID' field should contain 'ownerRecordName'")
    ELSE IF "syncToken" \in DOMAIN record.v /\ record.v["syncToken"].t /= "str"
    THEN SchemaFault("Zone records field 'syncToken' is optional but must be a str, if present")
    ELSE ZoneObject_init(record.v["zoneID"], record.v["atomic"],
                         record.v["isEligibleForHierarchicalShare"],
                         record.v["isEligibleForZoneShare"],
                         Get(record.v, "syncToken"))

\* the list comprehension of _fetch_zones over the entries, first fault wins
RECURSIVE ZoneObjects(_, _)
ZoneObjects(entries, acc) ==
    IF entries = <<>> \/ ~acc.ok THEN acc
    ELSE LET z == ZoneObject_from_record(Head(entries))
         IN ZoneObjects(Tail(entries),
                        IF z.ok THEN Return(Append(acc.value, z.value)) ELSE z)

\* ZonesContainer._fetch_zones, given the body of the zones/list response
_fetch_zones(response) ==
    ZoneObjects(IF "zones" \in DOMAIN response.v THEN response.v["zones"].v ELSE <<>>,
                Return(<<>>))

\* the loop of ZonesContainer.__getitem__ over the records
ZonesContainer_getitem(zs, name) ==
    IF \E i \in DOMAIN zs : zs[i].attrs.zone_id.zone_name = PyStr(name)
    THEN Return(zs[CHOOSE i \in DOMAIN zs :
                      /\ zs[i].attrs.zone_id.zone_name = PyStr(name)
                      /\ \A j \in 1..(i - 1) :
                            zs[j].attrs.zone_id.zone_name /= PyStr(name)])
    ELSE Raise("KeyError", "Zone '" \o name \o "' not found.")

----------------------------------------------------------------------------
(* Zone entries the server can deliver.                                    *)

MaxZones == 2

ZoneIDValue(name) ==
    PyDict(("zoneName" :> PyStr(name)) @@ ("zoneType" :> PyStr("REGULAR_CUSTOM_ZONE"))
           @@ ("ownerRecordName" :> PyStr("_owner")))

GoodZone(name) ==
    PyDict(("atomic" :> PyBool(TRUE))
           @@ ("isEligibleForHierarchicalShare" :> PyBool(TRUE))
           @@ ("isEligibleForZoneShare" :> PyBool(TRUE))
           @@ ("zoneID" :> ZoneIDValue(name)))

ZoneNames == {"Reminders", "Notes"}

ZoneFields == {"atomic", "isEligibleForHierarchicalShare", "isEligibleForZoneShare",
               "zoneID"}

ZoneIDFields == {"zoneName", "zoneType", "ownerRecordName"}

GoodZones ==
    { GoodZone("Notes"),
      PyDict(Put(GoodZone("Reminders").v, "syncToken", PyStr("st1"))) }

\* a zone entry of another zone with one required field missing or malformed
MalformedZones ==
    { PyDict(Del(GoodZone("Notes").v, f)) : f \in ZoneFields }
    \cup { PyDict(Put(GoodZone("Notes").v, "zoneID",
                      PyDict(Del(ZoneIDValue("Notes").v, f)))) : f \in ZoneIDFields }
    \cup { PyDict(Put(GoodZone("Notes").v, "syncToken", PyInt(5))),
           PyDict(Put(GoodZone("Notes").v, "zoneID", PyStr("Notes"))),
           PyDict(EmptyDict) }

ZoneEntries == GoodZones \cup MalformedZones

\* the zones arrays: distinct well-formed entries, at most one of them replaced
\* by a malformed one
ZoneArrays ==
    LET good == { zs \in UNION { [1..n -> GoodZones] : n \in 0..MaxZones } :
                    \A i, j \in DOMAIN zs : zs[i] = zs[j] => i = j }
    IN good \cup UNION { { [zs EXCEPT ![i] = bad] :
                              i \in DOMAIN zs, bad \in MalformedZones } : zs \in good }

\* bodies of the zones/list response: with a zones array, or without the key
ZoneResponses ==
    { PyDict("zones" :> PyList(zs)) : zs \in ZoneArrays } \cup { PyDict(EmptyDict) }

\* the responses with at most one zone, which the service is constructed on
InitZoneResponses ==
    { r \in ZoneResponses : "zones" \in DOMAIN r.v => Len(r.v["zones"].v) <= 1 }

----------------------------------------------------------------------------
(* PaginatedFetcher: the continuation-marker loop shared by                *)
(* ListsContainer._fetch_lists and BaseRemindersList._fetch_reminders.     *)

MaxPages == 3

MaxRecords == 2

Tokens == {"tok1", "tok2"}

\* the continuationMarker part of a response body: key absent, null, or a token
AbsentMarker == EmptyDict

NullMarker == "continuationMarker" :> None

TokenMarker(tok) == "continuationMarker" :> PyStr(tok)

\* the markers of the pages before the last one
OpenMarkers == {AbsentMarker} \cup { TokenMarker(tok) : tok \in Tokens }

\* what the server answers to the successive requests of one fetch: a result
\* set cut into at most MaxPages pages, the last of which carries the null marker
Scripts ==
    { Append(sc, NullMarker) :
        sc \in UNION { [1..n -> OpenMarkers] : n \in 0..(MaxPages - 1) } }

\* a _fetch_lists query that names the default zone instead of the service's
ListsQuery_default_zone(z) ==
       ("query" :> PyDict("recordType" :> PyStr("Lists")))
    @@ ("resultsLimit" :> PyInt(200))
    @@ ("zoneID" :> PyDict(("zoneName" :> PyStr("_defaultZone"))
                           @@ ("zoneType" :> z.attrs.zone_id.zone_type)
                           @@ ("ownerRecordName" :> PyStr("_defaultOwner"))))

\* the query of _fetch_lists (lines 874-880)
ListsQuery(z) ==
       ("query" :> PyDict("recordType" :> PyStr("Lists")))
    @@ ("resultsLimit" :> PyInt(200))
    @@ ("zoneID" :> ZoneIDObject_to_dict(z.attrs.zone_id))

FilterBy(fieldName, value, type) ==
    PyDict(("fieldName" :> PyStr(fieldName)) @@ ("comparator" :> PyStr("EQUALS"))
           @@ ("fieldValue" :> PyDict(("value" :> value) @@ ("type" :> PyStr(type)))))

\* _get_fetch_reminders_payload(include_completed, lookup_validating_reference)
_get_fetch_reminders_payload(z, list_id, include_completed, lookup_validating_reference) ==
       ("query" :> PyDict(
            ("recordType" :> PyStr("reminderList"))
            @@ ("filterBy" :> PyList(<<
                   FilterBy("listID",
                            PyDict(("recordName" :> list_id)
                                   @@ ("action" :> PyStr("VALIDATE"))),
                            "REFERENCE"),
                   FilterBy("includeCompleted",
                            PyInt(IF include_completed THEN 1 ELSE 0), "INT64"),
                   FilterBy("LookupValidatingReference",
                            PyInt(IF lookup_validating_reference THEN 1 ELSE 0),
                            "INT64") >>))))
    @@ ("resultsLimit" :> PyInt(200))
    @@ ("zoneID" :> PyDict(("zoneName" :> z.attrs.zone_id.zone_name)
                           @@ ("ownerRecordName" :> z.attrs.zone_id.owner_record_name)))

\* the condition of the while loop (lines 453-455 and 888-890)
LoopCondition(q) ==
    IF "continuationMarker" \notin DOMAIN q THEN TRUE
    ELSE q["continuationMarker"] /= None

\* variant of the update that keeps a marker the query already carries
NextQuery_keep(q, response) ==
    IF "continuationMarker" \in DOMAIN q /\ "continuationMarker" \in DOMAIN response
    THEN q
    ELSE Put(q, "continuationMarker", Get(response, "continuationMarker"))

\* query["continuationMarker"] = response.get("continuationMarker", None)
NextQuery(q, response) ==
    Put(q, "continuationMarker", Get(response, "continuationMarker"))

\* lists[record.name] = record on the insertion-ordered dict `lists`
SetByName(lists, obj) ==
    IF \E i \in DOMAIN lists : lists[i].attrs.name = obj.attrs.name
    THEN [i \in DOMAIN lists |->
             IF lists[i].attrs.name = obj.attrs.name THEN obj ELSE lists[i]]
    ELSE Append(lists, obj)

\* lines 902-903: the objects built so far with one more, or the first fault
AppendObject(acc, obj) ==
    IF obj.ok THEN Return(Append(acc.value, obj.value)) ELSE obj

\* lines 902-903: materialize every record, stopping at the first fault
RECURSIVE record_objects(_, _)
record_objects(rs, acc) ==
    IF rs = <<>> \/ ~acc.ok THEN acc
    ELSE record_objects(Tail(rs), AppendObject(acc, from_record(Head(rs))))

\* lines 905-909: key the lists by name
RECURSIVE KeyByName(_, _)
KeyByName(objs, lists) ==
    IF objs = <<>> THEN lists
    ELSE KeyByName(Tail(objs), SetByName(lists, Head(objs)))

KeyObjects(objs) ==
    IF objs.ok THEN Return(KeyByName(objs.value, <<>>)) ELSE objs

\* lines 902-911: materialize every record, then key the lists by name
MaterializeLists(rs) == KeyObjects(record_objects(rs, Return(<<>>)))

\* self.records[key] on the ListsContainer
ListsLookup(lists, key) ==
    IF \E i \in DOMAIN lists : lists[i].attrs.name = PyStr(key)
    THEN Return(lists[CHOOSE i \in DOMAIN lists : lists[i].attrs.name = PyStr(key)])
    ELSE Raise("KeyError", key)

\* what a read of the ListsContainer answers once self.records is at hand
ListsAnswer(op, arg, lists) ==
    IF op = "len" THEN Return(PyInt(Len(lists)))
    ELSE IF op = "get_by_id" THEN ListsLookup(lists, arg)
    ELSE IF \E i \in DOMAIN lists : lists[i].attrs.name = PyStr(arg)
    THEN Return(lists[CHOOSE i \in DOMAIN lists :
                         /\ lists[i].attrs.name = PyStr(arg)
                         /\ \A j \in 1..(i - 1) : lists[j].attrs.name /= PyStr(arg)])
    ELSE Raise("KeyError", "List '" \o arg \o "' not found.")

\* what a read of the ZonesContainer answers once self.records is at hand
ZonesAnswer(op, arg, zs) ==
    IF op = "zones_len" THEN Return(PyInt(Len(zs)))
    ELSE ZonesContainer_getitem(zs, arg)

----------------------------------------------------------------------------
(* Records the server holds, and the pages it cuts them into.              *)

ListRecord(recordName, name) ==
    RawRecord("List", recordName,
              Restrict(OptionalTop, {"zoneID", "created"}),
              "Name" :> WireField("STRING", PyStr(name)))

ReminderRecord ==
    RawRecord("Reminder", "r1", Restrict(OptionalTop, {"zoneID", "created"}),
              "Title" :> WireField("STRING", PyStr("T")))

ServerRecords == { ListRecord("a", "A"), ListRecord("b", "A"), ReminderRecord }

\* the records arrays the server can put into one response to a query for the
\* lists, and to a query for the reminders of a list
Pages(kind) ==
    UNION { [1..n -> IF kind = "lists" THEN ServerRecords ELSE {ReminderRecord}] :
              n \in 0..MaxRecords }

ListOps == {"len", "get_by_id", "get_by_name"}

ListArgs(op) ==
    IF op = "get_by_id" THEN {"a", "b"}
    ELSE IF op = "get_by_name" THEN {"A"}
    ELSE {""}

ZoneOps == {"zones_len", "zones_getitem"}

ZoneArgs(op) == IF op = "zones_getitem" THEN ZoneNames ELSE {""}

----------------------------------------------------------------------------
(* The service: RemindersService.__init__, the reads of the two            *)
(* containers, the refreshes, and the steps of the pagination loop.        *)

Init == ServiceInit /\ ResolveIdle /\ ReaderIdle /\ SnakeIdle

NoFetch ==
    /\ fetcher' = "none"
    /\ script' = <<>>
    /\ query' = EmptyDict
    /\ records' = <<>>
    /\ sent' = <<>>
    /\ received' = <<>>

\* entry of _fetch_lists / _fetch_reminders: a fresh query and no records
BeginFetch(kind, q) ==
    /\ fetcher' = kind
    /\ script' \in Scripts
    /\ query' = q
    /\ records' = <<>>
    /\ sent' = <<>>
    /\ received' = <<>>

NoZoneRequest ==
    /\ zones_requests' = 0
    /\ zones_response' = None
    /\ UNCHANGED <<zones_records, zone>>

Idle == pc = "ready" /\ fetcher = "none"

\* `not obj` is False for an instance of a class without __bool__ and __len__
IsFalsy(obj) == obj.cls = "NoneType"

\* lines 1111-1119: look the primary zone up in the fresh ZonesContainer
PrimaryZone(fetched) ==
    LET zone_ == ZonesContainer_getitem(fetched, "Reminders")
    IN IF ~zone_.ok THEN zone_
       ELSE IF IsFalsy(zone_.value)
       THEN Raise("PyiCloudServiceNotActivatedException",
                  "Could not find Primary Zone 'Reminders'.")
       ELSE zone_

\* RemindersService.__init__ up to the call of self.refresh()
InitService ==
    /\ pc = "new"
    /\ \E response \in InitZoneResponses :
          LET fetched == _fetch_zones(response)
              found == IF fetched.ok THEN PrimaryZone(fetched.value) ELSE fetched
          IN /\ zones_requests' = 1
             /\ zones_response' = response
             /\ zones_records' = IF fetched.ok THEN fetched.value ELSE zones_records
             /\ populated' = IF fetched.ok THEN populated \cup {"zones"} ELSE populated
             /\ IF found.ok
                THEN /\ zone' = found.value
                     /\ pc' = "constructing"
                     /\ fault' = NoFault
                     /\ BeginFetch("lists", ListsQuery(found.value))
                ELSE /\ zone' = zone
                     /\ pc' = "failed"
                     /\ fault' = found
                     /\ NoFetch
    /\ caller' = "init"
    /\ target' = ""
    /\ cached_read' = FALSE
    /\ ret' = None
    /\ UNCHANGED lists_records
    /\ UNCHANGED <<resolveVars, readerVars, snakeVars>>

\* RemindersService.refresh / ListsContainer.refresh: entry of _fetch_lists
Refresh ==
    /\ Idle
    /\ caller' = "refresh"
    /\ target' = ""
    /\ cached_read' = FALSE
    /\ fault' = NoFault
    /\ ret' = None
    /\ BeginFetch("lists", ListsQuery(zone))
    /\ NoZoneRequest
    /\ UNCHANGED <<pc, lists_records, populated>>
    /\ UNCHANGED <<resolveVars, readerVars, snakeVars>>

\* a read of the ListsContainer (len, get_by_id, get_by_name): the
\* records property answers from self._records unless it is falsy
ReadLists ==
    /\ Idle
    /\ \E op \in ListOps : \E arg \in ListArgs(op) :
          /\ caller' = op
          /\ target' = arg
          /\ IF lists_records /= <<>>
             THEN LET answer == ListsAnswer(op, arg, lists_records)
                  IN /\ ret' = IF answer.ok THEN answer.value ELSE None
                     /\ fault' = IF answer.ok THEN NoFault ELSE answer
                     /\ NoFetch
             ELSE /\ ret' = None
                  /\ fault' = NoFault
                  /\ BeginFetch("lists", ListsQuery(zone))
    /\ cached_read' = ("lists" \in populated)
    /\ NoZoneRequest
    /\ UNCHANGED <<pc, lists_records, populated>>
    /\ UNCHANGED <<resolveVars, readerVars, snakeVars>>

\* a read of the ZonesContainer (len, lookup by name): the records property
\* answers from self._records unless it is falsy
ReadZones ==
    /\ fetcher = "none"
    /\ \E op \in ZoneOps : \E arg \in ZoneArgs(op) :
          /\ caller' = op
          /\ target' = arg
          /\ IF zones_records /= <<>>
             THEN LET answer == ZonesAnswer(op, arg, zones_records)
                  IN /\ ret' = IF answer.ok THEN answer.value ELSE None
                     /\ fault' = IF answer.ok THEN NoFault ELSE answer
                     /\ zones_requests' = 0
                     /\ zones_response' = None
                     /\ UNCHANGED <<zones_records, populated>>
             ELSE \E response \in ZoneResponses :
                     LET fetched == _fetch_zones(response)
                         answer == IF fetched.ok
                                   THEN ZonesAnswer(op, arg, fetched.value)
                                   ELSE fetched
                     IN /\ ret' = IF answer.ok THEN answer.value ELSE None
                        /\ fault' = IF answer.ok THEN NoFault ELSE answer
                        /\ zones_requests' = 1
                        /\ zones_response' = response
                        /\ zones_records' =
                               IF fetched.ok THEN fetched.value ELSE zones_records
                        /\ populated' =
                               IF fetched.ok THEN populated \cup {"zones"} ELSE populated
    /\ cached_read' = ("zones" \in populated)
    /\ NoFetch
    /\ UNCHANGED <<pc, zone, lists_records>>
    /\ UNCHANGED <<resolveVars, readerVars, snakeVars>>

\* ZonesContainer.refresh
RefreshZones ==
    /\ fetcher = "none"
    /\ \E response \in ZoneResponses :
          LET fetched == _fetch_zones(response)
          IN /\ fault' = IF fetched.ok THEN NoFault ELSE fetched
             /\ zones_response' = response
             /\ zones_records' = IF fetched.ok THEN fetched.value ELSE zones_records
             /\ populated' = IF fetched.ok THEN populated \cup {"zones"} ELSE populated
    /\ zones_requests' = 1
    /\ caller' = "zones_refresh"
    /\ target' = ""
    /\ cached_read' = FALSE
    /\ ret' = None
    /\ NoFetch
    /\ UNCHANGED <<pc, zone, lists_records>>
    /\ UNCHANGED <<resolveVars, readerVars, snakeVars>>

\* the reminders property of a cached list: fetch only while _reminders is None
ReadReminders ==
    /\ Idle
    /\ \E i \in DOMAIN lists_records :
          /\ target' = lists_records[i].attrs.name.v
          /\ IF lists_records[i].attrs["_reminders"] /= None
             THEN /\ ret' = lists_records[i].attrs["_reminders"]
                  /\ NoFetch
             ELSE /\ ret' = None
                  /\ BeginFetch("reminders",
                        _get_fetch_reminders_payload(zone,
                            lists_records[i].attrs.list_id, FALSE, TRUE))
    /\ caller' = "reminders"
    /\ cached_read' = FALSE
    /\ fault' = NoFault
    /\ NoZoneRequest
    /\ UNCHANGED <<pc, lists_records, populated>>
    /\ UNCHANGED <<resolveVars, readerVars, snakeVars>>

\* BaseRemindersList.refresh of a cached list: entry of _fetch_reminders
RefreshReminders ==
    /\ Idle
    /\ \E i \in DOMAIN lists_records :
          /\ target' = lists_records[i].attrs.name.v
          /\ BeginFetch("reminders",
                _get_fetch_reminders_payload(zone,
                    lists_records[i].attrs.list_id, FALSE, TRUE))
    /\ caller' = "list_refresh"
    /\ cached_read' = FALSE
    /\ fault' = NoFault
    /\ ret' = None
    /\ NoZoneRequest
    /\ UNCHANGED <<pc, lists_records, populated>>
    /\ UNCHANGED <<resolveVars, readerVars, snakeVars>>

\* one iteration of the while loop: post the query, extend records with the
\* response's records, take over its continuationMarker
FetchStepFrom(pages) ==
    /\ fetcher /= "none"
    /\ LoopCondition(query)
    /\ Len(received) < Len(script)
    /\ \E page \in pages :
          /\ Len(records) + Len(page) <= MaxRecords
          /\ LET response == script[Len(received) + 1] @@ ("records" :> PyList(page))
             IN /\ sent' = Append(sent, query)
                /\ received' = Append(received, response)
                /\ records' = records \o response["records"].v
                /\ query' = NextQuery(query, response)
    /\ UNCHANGED <<pc, caller, fetcher, target, script, zones_records, zone,
                   lists_records, zones_requests, zones_response, populated,
                   cached_read, fault, ret>>
    /\ UNCHANGED <<resolveVars, readerVars, snakeVars>>

\* the loop of _fetch_lists or _fetch_reminders against the server's records
FetchStep == FetchStepFrom(Pages(fetcher))

\* _reminders of the list keyed `name` replaced by the dict d
WithReminders(lists, name, d) ==
    [i \in DOMAIN lists |->
        IF lists[i].attrs.name = PyStr(name)
        THEN [lists[i] EXCEPT !.attrs = Put(lists[i].attrs, "_reminders", d)]
        ELSE lists[i]]

\* what the operation that started the list fetch answers: the fault of the
\* materialization, the answer of the read, or nothing for __init__ and refresh
FetchAnswer(lists) ==
    IF ~lists.ok THEN lists
    ELSE IF caller \in ListOps THEN ListsAnswer(caller, target, lists.value)
    ELSE Return(None)

\* an assignment that empties self._records when _fetch_lists has faulted
AssignLists_clearing(lists, answer) ==
    /\ lists_records' = IF lists.ok THEN lists.value ELSE <<>>
    /\ populated' = IF lists.ok THEN populated \cup {"lists"} ELSE populated
    /\ fault' = IF answer.ok THEN NoFault ELSE answer
    /\ ret' = IF answer.ok THEN answer.value ELSE None
    /\ pc' = IF caller = "init"
             THEN (IF lists.ok THEN "ready" ELSE "failed")
             ELSE pc

\* the caller of _fetch_lists (refresh, or the records property) assigns the
\* result to self._records and completes
AssignLists(lists, answer) ==
    /\ lists_records' = IF lists.ok THEN lists.value ELSE lists_records
    /\ populated' = IF lists.ok THEN populated \cup {"lists"} ELSE populated
    /\ fault' = IF answer.ok THEN NoFault ELSE answer
    /\ ret' = IF answer.ok THEN answer.value ELSE None
    /\ pc' = IF caller = "init"
             THEN (IF lists.ok THEN "ready" ELSE "failed")
             ELSE pc

FinishLists(lists) == AssignLists(lists, FetchAnswer(lists))

\* the loop has ended: _fetch_lists materializes the records and the caller
\* assigns the result to self._records; _fetch_reminders returns an empty
\* dict that becomes self._reminders
FetchFinish ==
    /\ fetcher /= "none"
    /\ ~LoopCondition(query)
    /\ fetcher' = "none"
    /\ IF fetcher = "lists"
       THEN FinishLists(MaterializeLists(records))
       ELSE /\ lists_records' = WithReminders(lists_records, target, PyDict(EmptyDict))
            /\ ret' = IF caller = "reminders" THEN PyDict(EmptyDict) ELSE None
            /\ UNCHANGED <<populated, fault, pc>>
    /\ UNCHANGED <<caller, target, script, query, records, sent, received,
                   zones_records, zone, zones_requests, zones_response, cached_read>>
    /\ UNCHANGED <<resolveVars, readerVars, snakeVars>>

\* the service and its ListsContainer
Next ==
    \/ InitService
    \/ Refresh
    \/ ReadLists
    \/ ReadReminders
    \/ RefreshReminders
    \/ FetchStep
    \/ FetchFinish

Spec == Init /\ [][Next]_vars

\* the ZonesContainer on its own, from its construction on
NextZones == ReadZones \/ RefreshZones

SpecZones == Init /\ [][NextZones]_vars

----------------------------------------------------------------------------
(* Properties of the pagination loop.                                      *)

\* a pagination loop has run and has ended
FetchDone == fetcher = "none" /\ sent /= <<>>

HasMarker(response) == "continuationMarker" \in DOMAIN response

HasNullMarker(response) ==
    IF HasMarker(response) THEN response["continuationMarker"] = None ELSE FALSE

\* C1 as stated: a response that omits continuationMarker does not end the
\* fetch, another request follows it; when the server answers with the markers
\* (absent, "tok1", null), exactly three requests are issued.
C1_AsStated ==
    /\ \A i \in DOMAIN received :
          ~HasMarker(received[i]) => (Len(sent) > i \/ fetcher /= "none")
    /\ (FetchDone /\ script = <<AbsentMarker, TokenMarker("tok1"), NullMarker>>)
          => Len(sent) = 3

\* position of the first response with a null marker in the server's answers
FirstNull(sc) ==
    CHOOSE i \in DOMAIN sc :
        /\ sc[i] = NullMarker
        /\ \A j \in 1..(i - 1) : sc[j] /= NullMarker

\* C2 as stated: once a response carries a null continuationMarker no further
\* request is issued, and the number of requests of a fetch equals the position
\* of the first such response in the server's response sequence.
C2_AsStated ==
    /\ \A i \in DOMAIN received : HasNullMarker(received[i]) => Len(sent) = i
    /\ FetchDone => Len(sent) = FirstNull(script)

C4_AsStated ==
    (FetchDone /\ caller \in {"init", "refresh"} \cup ListOps
        /\ MaterializeLists(records).ok)
        => Len(lists_records) = Len(records)

\* the script is n pages with non-null tokens followed by the null marker
TokensThenNull(sc) ==
    \A i \in DOMAIN sc :
        IF i = Len(sc) THEN sc[i] = NullMarker
        ELSE \E tok \in Tokens : sc[i] = TokenMarker(tok)

\* C5 as stated: the loop ends only on the termination marker, and N responses
\* with non-null tokens followed by a null marker make exactly N+1 requests.
C5_AsStated ==
    /\ FetchDone => HasNullMarker(received[Len(received)])
    /\ (FetchDone /\ TokensThenNull(script)) => Len(sent) = Len(script)

----------------------------------------------------------------------------
(* Properties of zone resolution and of the caches.                        *)

\* the entries of the zones/list response the operation received
ResponseZones ==
    IF zones_response = None THEN <<>>
    ELSE IF "zones" \in DOMAIN zones_response.v THEN zones_response.v["zones"].v
    ELSE <<>>

\* entry e is named "Reminders"
IsReminders(e) ==
    IF e.t /= "dict" THEN FALSE
    ELSE IF "zoneID" \notin DOMAIN e.v THEN FALSE
    ELSE IF e.v["zoneID"].t /= "dict" THEN FALSE
    ELSE IF "zoneName" \notin DOMAIN e.v["zoneID"].v THEN FALSE
    ELSE e.v["zoneID"].v["zoneName"] = PyStr("Reminders")

\* C8 as stated: when no entry of the zones response is named "Reminders"
\* (the entries being well formed, or the array empty or missing), the
\* initialization of the service fails with PyiCloudServiceNotActivatedException.
C8_AsStated ==
    (/\ caller = "init"
     /\ zones_response /= None
     /\ \A i \in DOMAIN ResponseZones :
           /\ ZoneObject_from_record(ResponseZones[i]).ok
           /\ ~IsReminders(ResponseZones[i]))
    => (pc = "failed" /\ ~fault.ok
        /\ fault.exc = "PyiCloudServiceNotActivatedException")

\* the required fields that entry e lacks, and syncToken if it is not a string
MissingFields(e) ==
    { f \in ZoneFields : f \notin DOMAIN e.v }
    \cup (IF "zoneID" \notin DOMAIN e.v THEN {}
          ELSE IF e.v["zoneID"].t /= "dict" THEN ZoneIDFields
          ELSE { f \in ZoneIDFields : f \notin DOMAIN e.v["zoneID"].v })
    \cup (IF "syncToken" \notin DOMAIN e.v THEN {}
          ELSE IF e.v["syncToken"].t /= "str" THEN {"syncToken"}
          ELSE {})

\* the field name a schema fault's message quotes last, "" if it quotes none
NamedField(msg) ==
    CASE msg = "Zone record should contain field 'atomic'" -> "atomic"
      [] msg = "Zone record should contain field 'isisEligibleForHierarchicalShare'"
            -> "isisEligibleForHierarchicalShare"
      [] msg = "Zone record should contain field 'isEligibleForZoneShare'"
            -> "isEligibleForZoneShare"
      [] msg = "Zone record should contain field 'zoneID'" -> "zoneID"
      [] msg = "Zone record's 'zoneID' field should be a dict" -> "zoneID"
      [] msg = "Zone record's 'zoneID' field should contain 'zoneName'" -> "zoneName"
      [] msg = "Zone record's 'zoneID' field should contain 'zoneType'" -> "zoneType"
      [] msg = "Zone record's 'zoneID' field should contain 'ownerRecordName'"
            -> "ownerRecordName"
      [] msg = "Zone records field 'syncToken' is optional but must be a str, if present"
            -> "syncToken"
      [] OTHER -> ""

\* C9 as stated: if any entry of the zones response carries some fields but
\* lacks a required one, or has a syncToken that is not a string, zone
\* resolution fails with a
\* PyiCloudAPIResponseException whose message names a field that entry lacks,
\* and no zone is returned.
C9_AsStated ==
    (\E i \in DOMAIN ResponseZones :
        /\ DOMAIN ResponseZones[i].v /= {}
        /\ MissingFields(ResponseZones[i]) /= {})
    => /\ ~fault.ok
       /\ fault.exc = "PyiCloudAPIResponseException"
       /\ \E i \in DOMAIN ResponseZones :
             NamedField(fault.msg) \in MissingFields(ResponseZones[i])
       /\ ret = None

\* C10 as stated: once a cache has been populated, a read of it issues no
\* transport request, whatever the server had returned.
C10_AsStated ==
    cached_read =>
        /\ caller \in ListOps => sent = <<>>
        /\ caller \in ZoneOps => zones_requests = 0

----------------------------------------------------------------------------
(* Properties of the service's initialization.                             *)

\* the zone entries of the zones/list response of the constructor that name
\* the primary zone and are well-formed
PrimaryEntries ==
    { i \in DOMAIN zones_records :
        zones_records[i].attrs.zone_id.zone_name = PyStr("Reminders") }

\* the zone descriptor a records/query request is scoped to
Scope(q) == q["zoneID"].v

\* C18: in an execution of RemindersService.__init__ the zones/list request
\* is issued exactly once; a records/query request is issued only once the
\* primary zone has been found in the response and stored as the service's
\* zone; and every records/query request issued from then on, by the
\* constructor or by a later operation, carries that zone's zoneName and
\* ownerRecordName.
C18_ZoneScoped ==
    /\ (pc /= "new" /\ caller = "init") => zones_requests = 1
    /\ (pc = "failed" /\ zone = NoZone) => sent = <<>>
    /\ sent /= <<>> =>
          /\ zone.cls = "ZoneObject"
          /\ PrimaryEntries /= {}
          /\ \E i \in PrimaryEntries : zones_records[i] = zone
          /\ \A i \in DOMAIN sent :
                /\ Scope(sent[i])["zoneName"] = zone.attrs.zone_id.zone_name
                /\ Scope(sent[i])["ownerRecordName"] = zone.attrs.zone_id.owner_record_name

\* the constructor has completed after one zones/list request and a paginated
\* fetch of the lists
C18_Witness ==
    /\ pc = "ready"
    /\ caller = "init"
    /\ zones_requests = 1
    /\ Len(sent) >= 2
    /\ Scope(sent[2])["ownerRecordName"] = PyStr("_owner")

----------------------------------------------------------------------------
(* Export of a list: BaseRemindersList.to_dict and its overrides.          *)

\* str(x) of an attribute that holds a datetime or None
str(x) ==
    IF x.t = "datetime" THEN [t |-> "datestr", v |-> x.v]
    ELSE IF x = None THEN PyStr("None")
    ELSE x

\* the values of the members of SortingStyleEnum (lines 188-192)
EnumValues ==
    [MANUAL |-> "manual", DISPLAY_DATE_ASCENDING |-> "displayDate_asc",
     DISPLAY_DATE_DESCENDING |-> "displayDate_desc", TITLE_ASCENDING |-> "title_asc",
     TITLE_DESCENDING |-> "title_desc"]

\* x.value: defined on the members of an Enum only
value_of(x) ==
    IF x.t = "enum" THEN Return(PyStr(EnumValues[x.v]))
    ELSE Raise("AttributeError", "object has no attribute 'value'")

\* self.<name>, an AttributeError when __init__ did not set it
getattr(attrs, name) ==
    IF name \in DOMAIN attrs THEN Return(attrs[name])
    ELSE Raise("AttributeError", "object has no attribute '" \o name \o "'")

\* the attributes BaseRemindersList.to_dict copies unchanged
CopiedAttributes ==
    {"list_id", "name", "deleted", "imported", "is_group", "is_linked_to_account",
     "reminder_ids", "resolution_token_map", "plugin_fields", "record_change_tag",
     "created_by_user", "created_by_device", "modified_by_user",
     "modified_by_device", "deleted_by_user", "deleted_by_device"}

\* the dict BaseRemindersList.to_dict builds once self.sorting_style.value is at hand
BaseDict(attrs, style) ==
    [k \in CopiedAttributes \cup {"sorting_style", "created_date", "modified_date",
                                  "deleted_date"} |->
        IF k = "sorting_style" THEN style
        ELSE IF k \in {"created_date", "modified_date"} THEN str(attrs[k])
        ELSE IF k = "deleted_date"
        THEN (IF Truthy(attrs[k]) THEN str(attrs[k]) ELSE None)
        ELSE attrs[k]]

\* the result with fn applied to its value, or the fault passed on
Then(result, fn(_)) == IF result.ok THEN fn(result.value) ELSE result

BaseRemindersList_to_dict(attrs) ==
    Then(value_of(attrs["sorting_style"]), LAMBDA style : Return(BaseDict(attrs, style)))

\* StandardRemindersList.to_dict adds expiration_date and parent_list
StandardDict(attrs, this_dict) ==
    IF Truthy(attrs["parent_list"])
    THEN Raise("AttributeError", "object has no attribute 'to_dict'")
    ELSE Return(Put(Put(this_dict,
             "expiration_date",
             IF Truthy(attrs["expiration_date"]) THEN str(attrs["expiration_date"])
             ELSE None),
             "parent_list", None))

StandardRemindersList_to_dict(attrs) ==
    Then(BaseRemindersList_to_dict(attrs), LAMBDA d : StandardDict(attrs, d))

SharedRemindersList_to_dict(attrs) ==
    Then(StandardRemindersList_to_dict(attrs),
         LAMBDA d : Return(Put(Put(Put(d, "share", attrs["share"]),
                                   "stable_url", attrs["stable_url"]),
                               "short_guid", attrs["short_guid"])))

EnhancedRemindersList_to_dict(attrs) ==
    Then(StandardRemindersList_to_dict(attrs),
         LAMBDA d : Then(getattr(attrs, "should_categorize_grocery_items"),
                         LAMBDA g : Return(Put(d, "should_categorize_grocery_items", g))))

\* obj.to_dict(), dispatched on the class of obj
to_dict(obj) ==
    IF obj.cls = "SharedRemindersList" THEN SharedRemindersList_to_dict(obj.attrs)
    ELSE IF obj.cls = "EnhancedRemindersList" THEN EnhancedRemindersList_to_dict(obj.attrs)
    ELSE StandardRemindersList_to_dict(obj.attrs)

----------------------------------------------------------------------------
(* RecordUnmarshaller: from_record and to_dict applied to List records     *)
(* whose activity envelopes and fields take well-formed and malformed      *)
(* values.                                                                 *)

\* most extra fields a record carries besides Name
MaxFields == 2

\* a timestamp datetime cannot represent
OutOfRange == PyInt(MaxTimestamp + 1)

ActivityKeys == {"created", "modified", "deleted"}

\* values of a created / modified / deleted envelope
ActivityEnvelopes ==
    { PyBool(FALSE), PyBool(TRUE), PyDict(EmptyDict), ActivityValue,
      PyDict("userRecordName" :> PyStr("u")),
      PyDict(("timestamp" :> PyInt(1700)) @@ ("userRecordName" :> PyStr("u"))
             @@ ("deviceID" :> PyStr("d"))),
      PyDict("timestamp" :> OutOfRange),
      PyInt(0) }

SortingStyles == {"manual", "displayDate_asc", "displayDate_desc", "title_asc",
                  "title_desc"}

\* a field of a record: its wire name and its {type, value} envelope
Field(name, type, value) == [name |-> name, field |-> WireField(type, value)]

\* fields whose canonical name is that of a top-level attribute of the record
CollidingFields ==
    { Field(n, "STRING", PyStr("v")) :
        n \in {"RecordType", "RecordID", "ListID", "ZoneID", "Fields",
               "RecordChangeTag"} }

FieldVariants ==
    { Field("SortingStyle", "STRING", PyStr(v)) : v \in SortingStyles \cup {"bogus"} }
    \cup { Field("sorting_style", "STRING", PyStr("title_asc")),
           Field("Count", "INT64", PyInt(2)),
           Field("Count", "INT64", PyStr("2")),
           Field("Count", "INT64", PyStr("abc")),
           Field("Count", "DOUBLE", PyInt(3)),
           Field("ImportedDate", "TIMESTAMP", PyInt(1700)),
           Field("ImportedDate", "TIMESTAMP", OutOfRange),
           Field("ImportedDate", "TIMESTAMP", PyStr("x")),
           Field("Color", "STRING", PyStr("{}")),
           Field("Color", "STRING", PyStr("{bad")),
           Field("Color", "INT64", PyInt(5)),
           Field("ReminderIDs", "STRING", PyStr("[\"r1\"]")),
           Field("IsGroup", "INT64", PyInt(1)),
           Field("ShouldCategorizeGroceryItems", "INT64", PyInt(1)) }
    \cup CollidingFields

\* the fields dict made of Name and the fields in fs (of different names)
FieldsOf(fs) ==
    [n \in {"Name"} \cup { f.name : f \in fs } |->
        IF n = "Name" THEN WireField("STRING", PyStr("A"))
        ELSE (CHOOSE f \in fs : f.name = n).field]

\* the sets of at most n fields of different names
RECURSIVE FieldSetsUpTo(_)
FieldSetsUpTo(n) ==
    IF n = 0 THEN {{}}
    ELSE LET smaller == FieldSetsUpTo(n - 1)
         IN smaller \cup { fs \cup {f} : fs \in smaller,
                              f \in FieldVariants }

FieldSets ==
    { fs \in FieldSetsUpTo(MaxFields) : \A f, g \in fs : f.name = g.name => f = g }

\* the top-level keys every record of this section carries
PlainTop == ("zoneID" :> PyDict("zoneName" :> PyStr("Reminders")))
         @@ ("created" :> ActivityValue)
         @@ ("recordChangeTag" :> PyStr("tag1"))

UnmarshallRecords ==
    { RawRecord("List", "L1", PlainTop, FieldsOf(fs)) : fs \in FieldSets }
    \cup { Put(RawRecord("List", "L1", PlainTop, FieldsOf({})), k, e) :
             k \in ActivityKeys, e \in ActivityEnvelopes }

InitUnmarshall ==
    /\ ServiceInit
    /\ ReaderIdle
    /\ SnakeIdle
    /\ rec \in UnmarshallRecords
    /\ res = Pending
    /\ prev = Pending
    /\ edit = "none"
    /\ unmarshalled = Pending
    /\ exported = Pending

\* to_dict() on the list from_record returned
Export ==
    /\ res.ok
    /\ exported = Pending
    /\ exported' = to_dict(res.value)
    /\ UNCHANGED <<rec, res, prev, edit, unmarshalled>>
    /\ UNCHANGED <<serviceVars, readerVars, snakeVars>>

NextUnmarshall == Resolve \/ Export

SpecUnmarshall == InitUnmarshall /\ [][NextUnmarshall]_vars

----------------------------------------------------------------------------
(* Properties of the RecordUnmarshaller.                                   *)

\* the record has been through from_record
Unmarshalled == unmarshalled /= Pending

\* the activity envelopes the record carries
Activities == ActivityKeys \cap DOMAIN rec

\* an envelope the code documents as valid: False, or a dict with a timestamp
\* datetime can represent
ValidActivity(e) ==
    \/ e = PyBool(FALSE)
    \/ /\ e.t = "dict"
       /\ "timestamp" \in DOMAIN e.v
       /\ e.v["timestamp"].t = "int"
       /\ e.v["timestamp"].v \in MinTimestamp..MaxTimestamp

\* the three attributes unmarshall stores for the envelope under key k
ActivityInfo(k) ==
    [timestamp |-> unmarshalled.value[k \o "_date"],
     user_id |-> unmarshalled.value[k \o "_by_user"],
     device_id |-> unmarshalled.value[k \o "_by_device"]]

AllAbsent == [timestamp |-> None, user_id |-> None, device_id |-> None]

\* the record has no field besides Name
PlainFields == DOMAIN rec["fields"].v = {"Name"}

\* C11: an activity envelope False yields timestamp, user and device all
\* absent; the envelope {"timestamp": t} with a valid t and no actor keys yields
\* that instant with both actor fields absent; the envelope True raises a
\* fault (AssertionError) and the record is not unmarshalled.
C11_ActivityEnvelope ==
    Unmarshalled =>
        /\ (PlainFields /\ \A k \in Activities : ValidActivity(rec[k]))
              => unmarshalled.ok
        /\ \A k \in Activities :
              /\ (rec[k] = PyBool(FALSE) /\ unmarshalled.ok)
                    => ActivityInfo(k) = AllAbsent
              /\ (rec[k] = ActivityValue /\ unmarshalled.ok)
                    => ActivityInfo(k) = [timestamp |-> Datetime(1700),
                                          user_id |-> None, device_id |-> None]
              /\ rec[k] = PyBool(TRUE)
                    => /\ ~unmarshalled.ok
                       /\ ~res.ok
                       /\ PlainFields => unmarshalled.exc = "AssertionError"

\* a record whose created envelope is False has been unmarshalled, and one
\* whose envelope is True would be rejected
C11_Witness ==
    /\ Unmarshalled
    /\ unmarshalled.ok
    /\ rec["created"] = PyBool(FALSE)
    /\ rec["modified"] = ActivityValue
    /\ ActivityInfo("created") = AllAbsent
    /\ ActivityInfo("modified").timestamp = Datetime(1700)

\* C12 as stated: every envelope that is a mapping without a timestamp key,
\* the empty mapping included, is rejected with a fault; only False is
\* accepted as "never occurred" with an all-absent result.
C12_AsStated ==
    Unmarshalled =>
        \A k \in Activities :
            /\ (rec[k].t = "dict" /\ "timestamp" \notin DOMAIN rec[k].v)
                  => ~unmarshalled.ok
            /\ (unmarshalled.ok /\ ActivityInfo(k) = AllAbsent)
                  => rec[k] = PyBool(FALSE)

\* canonical name |-> wire name of the fields of the record
WireName(canonical) ==
    CHOOSE f \in DOMAIN rec["fields"].v : to_snake_case(f) = canonical

\* the member of SortingStyleEnum whose value is the wire value v
MemberOf(v) == CHOOSE m \in DOMAIN EnumValues : EnumValues[m] = v

\* C13 as stated: the list's sorting_style is the SortingStyleEnum member of
\* the wire value of the record's sorting-style field, and MANUAL when the
\* record has no such field.
C13_AsStated ==
    res.ok =>
        IF "sorting_style" \in FieldNames(rec)
        THEN LET wire == rec["fields"].v[WireName("sorting_style")].v["value"]
             IN wire.v \in SortingStyles
                   => res.value.attrs["sorting_style"] = Enum(MemberOf(wire.v))
        ELSE res.value.attrs["sorting_style"] = Enum("MANUAL")

KnownTypes == {PyStr("STRING"), PyStr("INT64"), PyStr("BOOLEAN"), PyStr("TIMESTAMP"),
               PyStr("ASSETID")}

\* the wire names of the fields whose type tag is not a known one
UnknownTyped == { f \in DOMAIN rec["fields"].v : rec["fields"].v[f].v["type"] \notin KnownTypes }

\* C14 as stated: a field with an unknown type tag does not abort
\* unmarshalling, and the attribute stored under its canonical name is the
\* value part of its {type, value} envelope, unchanged.
C14_AsStated ==
    Unmarshalled =>
        /\ (DOMAIN rec["fields"].v \ UnknownTyped = {"Name"}
            /\ \A k \in Activities : ValidActivity(rec[k]))
              => unmarshalled.ok
        /\ unmarshalled.ok =>
              \A f \in UnknownTyped :
                  unmarshalled.value["fields"].v[to_snake_case(f)]
                      = rec["fields"].v[f].v["value"]

\* C15 as stated: when every field has a known type tag, no raw value aborts
\* the unmarshalling of the record: it completes and every field of the record
\* has an attribute under its canonical name.  (Records with a field spelled
\* sorting_style on the wire are left aside: their fault is not one of
\* conversion.)
C15_AsStated ==
    (Unmarshalled /\ UnknownTyped = {} /\ "sorting_style" \notin DOMAIN rec["fields"].v
        /\ \A k \in Activities : ValidActivity(rec[k]))
    => /\ unmarshalled.ok
       /\ FieldNames(rec) \subseteq DOMAIN unmarshalled.value["fields"].v

\* canonical names of the top-level attributes of the unmarshalled record,
\* the record id under both of its names
TopAttributes == DOMAIN unmarshalled.value \cup {"list_id"}

\* C16 as stated: every field whose canonical name (other than name) is that
\* of a top-level attribute of the record makes resolution fail with the
\* collision fault, KeyError "already exists".
C16_AsStated ==
    (res /= Pending /\ unmarshalled.ok
        /\ \E n \in FieldNames(rec) \ {"name"} : n \in TopAttributes)
    => /\ ~res.ok
       /\ res.exc = "KeyError"
       /\ res.msg = "already exists"

\* C17 as stated: exporting any list from_record returned completes without a
\* fault; the keys are the canonical attribute names, sorting_style is the
\* value of the enum member and absent optional fields are None.
C17_AsStated ==
    exported /= Pending =>
        /\ exported.ok
        /\ CopiedAttributes \cup {"sorting_style", "created_date", "modified_date",
                                  "deleted_date"} \subseteq DOMAIN exported.value
        /\ exported.value["sorting_style"].v \in SortingStyles
        /\ \A k \in CopiedAttributes :
              res.value.attrs[k] = None => exported.value[k] = None

----------------------------------------------------------------------------
(* A second thread reading ListsContainer.records while the first runs     *)
(* ListsContainer.refresh. The refreshing thread is the service model's    *)
(* fetch; the reader's steps are the attribute reads of the records        *)
(* property.                                                               *)

\* RemindersService.refresh / ListsContainer.refresh is entered while no read
\* is under way: the thread starts _fetch_lists while self._records still
\* holds the previous snapshot
RefreshEnter ==
    /\ Idle
    /\ ~refreshing
    /\ reader \in {"idle", "done"}
    /\ caller' = "refresh"
    /\ target' = ""
    /\ cached_read' = FALSE
    /\ fault' = NoFault
    /\ ret' = None
    /\ BeginFetch("lists", ListsQuery(zone))
    /\ NoZoneRequest
    /\ refreshing' = TRUE
    /\ before' = lists_records
    /\ reader' = "idle"
    /\ during' = FALSE
    /\ observed' = <<>>
    /\ reader_sent' = 0
    /\ UNCHANGED <<pc, lists_records, populated>>
    /\ UNCHANGED <<resolveVars, snakeVars>>

\* the refresh returns to its caller, after the assignment of line 871 or
\* with the fault of _fetch_lists
RefreshReturn ==
    /\ refreshing
    /\ fetcher = "none"
    /\ refreshing' = FALSE
    /\ UNCHANGED <<before, reader, during, observed, reader_sent>>
    /\ UNCHANGED <<serviceVars, resolveVars, snakeVars>>

\* line 858: the reader evaluates `not self._records`; `during` records
\* whether a refresh was in progress at that point
ReaderCheck ==
    /\ pc = "ready"
    /\ reader = "idle"
    /\ reader' = IF lists_records /= <<>> THEN "hit" ELSE "miss"
    /\ during' = refreshing
    /\ UNCHANGED <<refreshing, before, observed, reader_sent>>
    /\ UNCHANGED <<serviceVars, resolveVars, snakeVars>>

\* line 859: the reader runs _fetch_lists itself and assigns the result; its
\* one request is answered by one page without a continuation token, holding
\* either no record or the records the cache was built from before the refresh
ReaderFetch ==
    /\ reader = "miss"
    /\ \E lists \in {<<>>, before} : lists_records' = lists
    /\ populated' = populated \cup {"lists"}
    /\ reader' = "hit"
    /\ reader_sent' = reader_sent + 1
    /\ UNCHANGED <<refreshing, before, during, observed>>
    /\ UNCHANGED <<pc, caller, fetcher, target, script, query, records, sent, received,
                   zones_records, zone, zones_requests, zones_response,
                   cached_read, fault, ret>>
    /\ UNCHANGED <<resolveVars, snakeVars>>

\* line 860: the reader returns self._records
ReaderReturn ==
    /\ reader = "hit"
    /\ observed' = lists_records
    /\ reader' = "done"
    /\ UNCHANGED <<refreshing, before, during, reader_sent>>
    /\ UNCHANGED <<serviceVars, resolveVars, snakeVars>>

NextConcurrent ==
    \/ InitService
    \/ RefreshEnter
    \/ FetchStep
    \/ FetchFinish
    \/ RefreshReturn
    \/ ReaderCheck
    \/ ReaderFetch
    \/ ReaderReturn

SpecConcurrent == Init /\ [][NextConcurrent]_vars

\* the snapshot the refresh in progress (or the last one) has assigned, if
\* its _fetch_lists has returned one
NewSnapshots(lists) ==
    IF fetcher = "none" /\ caller = "refresh" /\ lists.ok THEN {lists.value} ELSE {}

\* C19 as stated: a reader of the lists cache whose read overlaps a
\* ListsContainer.refresh that started from a non-empty snapshot gets either
\* that previous snapshot or the snapshot the refresh assigns, each as a
\* whole, and sends no request of its own.
C19_AsStated ==
    (reader = "done" /\ during /\ before /= <<>>)
    => /\ reader_sent = 0
       /\ observed \in {before} \cup NewSnapshots(MaterializeLists(records))

----------------------------------------------------------------------------
(* to_snake_case applied to its own result.                                *)

MaxWord == 5

\* the characters the two alternatives of snake_case_pattern and the "_i_ds"
\* replacement tell apart
WordChars == {"_", "i", "d", "s", "I", "D"}

\* the strings of at most n of these characters
RECURSIVE WordsUpTo(_)
WordsUpTo(n) ==
    IF n = 0 THEN {<<>>}
    ELSE LET shorter == WordsUpTo(n - 1)
         IN shorter \cup { Append(w, c) : w \in shorter, c \in WordChars }

\* the input strings: the short ones, and the key names of the records
Words ==
    WordsUpTo(MaxWord) \cup { Spell(s) : s \in KeyNames }
        \cup { Spell("SortingStyleIDs") }

InitSnake ==
    /\ ServiceInit
    /\ ResolveIdle
    /\ ReaderIdle
    /\ word \in Words
    /\ once = Pending
    /\ twice = Pending

\* to_snake_case(word)
ApplyOnce ==
    /\ once = Pending
    /\ once' = Return(to_snake_case_chars(word))
    /\ UNCHANGED <<word, twice>>
    /\ UNCHANGED <<serviceVars, resolveVars, readerVars>>

\* to_snake_case applied to the result of the first application
ApplyTwice ==
    /\ once /= Pending
    /\ twice = Pending
    /\ twice' = Return(to_snake_case_chars(once.value))
    /\ UNCHANGED <<word, once>>
    /\ UNCHANGED <<serviceVars, resolveVars, readerVars>>

NextSnake == ApplyOnce \/ ApplyTwice

SpecSnake == InitSnake /\ [][NextSnake]_vars

\* C20: to_snake_case is idempotent: applied to its own result it returns
\* that result, to_snake_case(to_snake_case(s)) = to_snake_case(s).
C20_Idempotent ==
    twice /= Pending => twice = once

\* a name that both the pattern and the replacement rewrite: "__iDs" becomes
\* "__ids", and stays "__ids"
C20_Witness ==
    /\ word = <<"_", "_", "i", "D", "s">>
    /\ once = Return(<<"_", "_", "i", "d", "s">>)
    /\ twice = once

\* the positions of cs after which the canonical name has an underscore: a
\* lower-case letter followed by a capital, and the capital before the last
\* capital of an upper-case run that a lower-case letter follows
Boundaries(cs) ==
    { i \in 1..(Len(cs) - 1) :
        IF IsLower(cs[i]) THEN IsUpper(cs[i + 1])
        ELSE /\ IsUpper(cs[i]) /\ IsUpper(cs[i + 1])
             /\ i + 2 <= Len(cs) /\ IsLower(cs[i + 2]) }

\* the subsequence of cs at the positions keep
Kept(cs, keep) ==
    [j \in 1..Cardinality(keep) |->
        cs[CHOOSE k \in keep : Cardinality({ m \in keep : m <= k }) = j]]

\* cs in lower case with an underscore after each of its boundaries
Underscored(cs) ==
    LET at(i) == i + Cardinality({ b \in Boundaries(cs) : b < i })
    IN [j \in 1..(Len(cs) + Cardinality(Boundaries(cs))) |->
           IF \E i \in DOMAIN cs : at(i) = j
           THEN LowerChar(cs[CHOOSE i \in DOMAIN cs : at(i) = j])
           ELSE "_"]

\* the positions of us where "_i_ds" occurs
Occurrences(us) ==
    { q \in 1..(Len(us) - 4) : SubSeq(us, q, q + 4) = <<"_", "i", "_", "d", "s">> }

\* us with the second underscore of every "_i_ds" taken out
Rewritten(us) ==
    Kept(us, { k \in DOMAIN us : k - 2 \notin Occurrences(us) })

\* C21: to_snake_case puts an underscore at every lower-to-upper boundary and
\* before the last capital of an upper-case run followed by a lower-case
\* letter, lower-cases the result and rewrites every "_i_ds" to "_ids";
\* "SortingStyleIDs" gives "sorting_style_ids", "zoneID" gives "zone_id" and
\* "shortGUID" gives "short_guid".
C21_Canonical ==
    once /= Pending =>
        /\ once.value = Rewritten(Underscored(word))
        /\ word = Spell("SortingStyleIDs") => once.value = Spell("sorting_style_ids")
        /\ word = Spell("zoneID") => once.value = Spell("zone_id")
        /\ word = Spell("shortGUID") => once.value = Spell("short_guid")

\* the mixed name of the claim has been canonicalized, through both
\* alternatives of the pattern and the replacement
C21_Witness ==
    /\ word = Spell("SortingStyleIDs")
    /\ once /= Pending
    /\ Boundaries(word) = {7, 12, 13}
    /\ Occurrences(Underscored(word)) = {14}

----------------------------------------------------------------------------
(* Properties of the ListsContainer's lookups and of its refresh.          *)

\* the lists of the cache whose list_id is id
HeldWithId(id) ==
    { i \in DOMAIN lists_records : lists_records[i].attrs.list_id = PyStr(id) }

\* C22 as stated: get_by_id(l.list_id), and container[l.list_id] which calls
\* it, return the list l for every list l the container holds after a fetch:
\* the container is keyed by the server-assigned list_id.
C22_AsStated ==
    (caller = "get_by_id" /\ fetcher = "none" /\ HeldWithId(target) /= {})
    => /\ fault = NoFault
       /\ \E i \in HeldWithId(target) : ret = lists_records[i]

\* list records that fault in from_record: an activity envelope that is
\* true, a field colliding with a top-level attribute, and a field the
\* constructor does not accept
FaultyRecords ==
    { RawRecord("List", "c",
                Put(Restrict(OptionalTop, {"zoneID"}), "created", PyBool(TRUE)),
                "Name" :> WireField("STRING", PyStr("C"))),
      RawRecord("List", "d", Restrict(OptionalTop, {"zoneID", "created"}),
                ("Name" :> WireField("STRING", PyStr("D")))
                @@ ("ListID" :> WireField("STRING", PyStr("v")))),
      RawRecord("List", "e", Restrict(OptionalTop, {"zoneID", "created"}),
                ("Name" :> WireField("STRING", PyStr("E")))
                @@ ("RecordType" :> WireField("STRING", PyStr("v")))) }

\* the records arrays of the responses to a refresh: a list, a record that is
\* not a list, and the faulty list records
RefreshPages ==
    UNION { [1..n -> {ListRecord("a", "A"), ReminderRecord} \cup FaultyRecords] :
              n \in 0..MaxRecords }

\* one iteration of the loop of _fetch_lists, the server holding these records
RefreshStep == FetchStepFrom(RefreshPages)

\* session.post raises in an iteration of the loop: the request has been
\* issued, and the fault leaves _fetch_lists and its caller
TransportFault ==
    /\ fetcher /= "none"
    /\ LoopCondition(query)
    /\ sent' = Append(sent, query)
    /\ fetcher' = "none"
    /\ fault' = Raise("ConnectionError", "")
    /\ ret' = None
    /\ pc' = IF caller = "init" THEN "failed" ELSE pc
    /\ UNCHANGED <<caller, target, script, query, records, received, zones_records,
                   zone, lists_records, zones_requests, zones_response, populated,
                   cached_read>>
    /\ UNCHANGED <<resolveVars, readerVars, snakeVars>>

NextRefresh ==
    \/ InitService
    \/ RefreshEnter
    \/ RefreshStep
    \/ TransportFault
    \/ FetchFinish
    \/ RefreshReturn

SpecRefresh == Init /\ [][NextRefresh]_vars

\* the refresh has ended with a fault
RefreshFaulted == caller = "refresh" /\ fetcher = "none" /\ ~fault.ok

\* the fault of the materialization of the fetched records, if it has one
MaterializationFaults(lists) == IF lists.ok THEN {} ELSE {lists}

\* C23: when a request or the materialization of a record faults during
\* ListsContainer.refresh, that fault reaches the caller, every request has
\* been issued once (the faulting one is the last, nothing is retried), and
\* self._records is what it was when refresh was called.
C23_FaultLeavesSnapshot ==
    RefreshFaulted =>
        /\ lists_records = before
        /\ IF fault.exc = "ConnectionError"
           THEN Len(sent) = Len(received) + 1
           ELSE /\ Len(sent) = Len(received)
                /\ fault \in MaterializationFaults(MaterializeLists(records))

\* a refresh of a non-empty cache has faulted on a colliding field in the
\* second page
C23_Witness ==
    /\ RefreshFaulted
    /\ before /= <<>>
    /\ Len(received) >= 2
    /\ fault.exc = "KeyError"
    /\ fault.msg = "already exists"

----------------------------------------------------------------------------
(* Properties of the Enhanced variant.                                     *)

\* the normalized boolean of the record's ShouldCategorizeGroceryItems field
\* (lines 140-148: the converted value compared with 1)
GroceryFlag ==
    PyBool(rec["fields"].v["ShouldCategorizeGroceryItems"].v["value"] = PyInt(1))

\* C24 as stated: every list materialized as the Enhanced variant has the
\* attribute should_categorize_grocery_items, equal to the normalized
\* boolean of the record's field, when that is true and when it is false.
C24_AsStated ==
    (res.ok /\ res.value.cls = "EnhancedRemindersList")
    => /\ "should_categorize_grocery_items" \in DOMAIN res.value.attrs
       /\ res.value.attrs["should_categorize_grocery_items"] = GroceryFlag

====
